---------------------------- MODULE Spec2Model ----------------------------
(***************************************************************************)
(* A model of the BBCode engine of src/services/bbcodeParser.ts.           *)
(*                                                                         *)
(* A string is a sequence of tokens.  A token [t |-> str, e |-> n] stands  *)
(* for the characters of str after n applications of escapeHtml.  The      *)
(* tokens are cut so that every regular expression of the source matches   *)
(* whole tokens: a bracket tag is its head followed by the token "]"       *)
(* ("[b", "]"), the sentinel is "%%", "LIST_ITEM_PLACEHOLDER", "%%", each  *)
(* generated element tag is one token, and each of the five characters     *)
(* escapeHtml rewrites is a token of its own.                              *)
(*                                                                         *)
(* parseBBCode is modelled as a machine with an explicit call stack: every *)
(* invocation (the top-level call and each call made by a replacement      *)
(* callback) is a frame that runs the literal-region stage, the pass loop  *)
(* over the rule table and the post-processing.                            *)
(***************************************************************************)
EXTENDS Naturals, Sequences, FiniteSets, TLC

VARIABLES bbcode, stack, returned,
          hook, localStorage, API_KEY, saves,
          isOpen, userPrompt, connection, events, calls,
          dg, modal

(* The state of the components around the editor: the API-key hook and its *)
(* section, and the modal with its transcription hook.                     *)
uiVars ==
  <<hook, localStorage, API_KEY, saves, isOpen, userPrompt, connection,
    events, calls, dg, modal>>

vars == <<bbcode, stack, returned, uiVars>>

---------------------------------------------------------------------------
(* Tokens and strings *)

T(str) == [t |-> str, e |-> 0]

Lit(strs) == [i \in 1..Len(strs) |-> T(strs[i])]

Min(S) == CHOOSE x \in S : \A y \in S : x <= y

Max(S) == CHOOSE x \in S : \A y \in S : x >= y

(* s without the tokens at the indices in D.                              *)
Remove(s, D) ==
  LET at == [i \in 1..Len(s) |-> [i |-> i, tok |-> s[i]]]
      kept == SelectSeq(at, LAMBDA x : x.i \notin D)
  IN [k \in 1..Len(kept) |-> kept[k].tok]

RECURSIVE Flatten(_)
Flatten(ss) ==
  IF Len(ss) = 0 THEN <<>>
  ELSE IF Len(ss) = 1 THEN ss[1]
  ELSE LET h == Len(ss) \div 2
       IN Flatten(SubSeq(ss, 1, h)) \o Flatten(SubSeq(ss, h + 1, Len(ss)))

(* The i flag of the rule regexes: the spelling the regex source uses.     *)
Fold(str) ==
  CASE str = "[B" -> "[b"
    [] str = "[/B" -> "[/b"
    [] str = "[CODE" -> "[code"
    [] str = "[/CODE" -> "[/code"
    [] str = "[LIST" -> "[list"
    [] str = "[/LIST" -> "[/list"
    [] str = "list_item_placeholder" -> "LIST_ITEM_PLACEHOLDER"
    [] str = "</UL>" -> "</ul>"
    [] OTHER -> str

IsTok(s, i, str) == i >= 1 /\ i <= Len(s) /\ s[i].e = 0 /\ Fold(s[i].t) = str

IsExact(s, i, str) == i >= 1 /\ i <= Len(s) /\ s[i].e = 0 /\ s[i].t = str

TagAt(s, i, head) == IsTok(s, i, head) /\ IsTok(s, i + 1, "]")

(* Greatest index j >= k where the tag head, "]" starts; 0 when there is   *)
(* none.                                                                   *)
LastTag(s, k, head) ==
  LET S == {j \in k..(Len(s) - 1) : TagAt(s, j, head)}
  IN IF S = {} THEN 0 ELSE Max(S)

(* Least index j >= k where the tag head, "]" starts; 0 when there is none *)
NextTag(s, k, head) ==
  LET S == {j \in k..(Len(s) - 1) : TagAt(s, j, head)}
  IN IF S = {} THEN 0 ELSE Min(S)

NextTok(s, k, str) ==
  LET S == {j \in k..Len(s) : IsTok(s, j, str)}
  IN IF S = {} THEN 0 ELSE Min(S)

---------------------------------------------------------------------------
(* Generated markup: the element templates of the source, one token per tag *)

PreCodeOpen == "<pre class=\"bg-gray-200 dark:bg-gray-800 text-gray-800 dark:text-gray-200 p-3 my-2 rounded border border-gray-300 dark:border-gray-600 whitespace-pre-wrap font-mono text-base overflow-x-auto\">"
CodeOpen == "<code class=\"language-none\">"
PreOpen == "<pre class=\"bg-gray-100 dark:bg-gray-700 p-3 my-2 rounded border border-gray-300 dark:border-gray-600 whitespace-pre-wrap font-mono text-base\">"
SpoilerDivStart == "<div class=\"spoiler my-2 p-1 bg-gray-200 dark:bg-gray-700 border border-gray-300 dark:border-gray-600 rounded\">"
SpoilerButtonOpen == "<input type=\"button\" class=\"button show_button bg-blue-500 hover:bg-blue-600 text-white font-semibold py-1 px-3 rounded cursor-pointer text-sm my-1 mx-1\" value=\""
SpoilerButtonClose == "\" onclick=\"this.nextSibling.style.display='inline-block';this.style.display='none';\">"
SpoilerSpanOpen == "<span class=\"spoiler_content block p-2 my-1 mx-1 bg-gray-100 dark:bg-gray-800 border border-gray-300 dark:border-gray-600 rounded\" style=\"display:none;\">"
ImgOpen == "<img src=\""
ImgClass == "\" class=\"userimg max-w-full h-auto my-1 border border-gray-300 dark:border-gray-600 shadow-sm inline-block\" style=\"\" alt=\"\" title=\"\" />"
AnchorOpen == "<a href=\""
AnchorAttrs == "\" target=\"_blank\" rel=\"nofollow noopener noreferrer\" class=\"text-blue-600 dark:text-blue-400 hover:text-blue-700 dark:hover:text-blue-300 hover:underline\">"
YtOpen == "<div class=\"my-2 aspect-video max-w-xl mx-auto shadow-lg rounded overflow-hidden\">"
YtFrameOpen == "<iframe class=\"w-full h-full\" src=\"https://www.youtube.com/embed/"
YtFrameAttrs == "\" frameborder=\"0\" allow=\"accelerometer; autoplay; clipboard-write; encrypted-media; gyroscope; picture-in-picture\" allowfullscreen>"
LiOpen == "<li class=\"py-0.5\">"
UlOpen == "<ul class=\"list-disc list-inside my-2 p-2 pl-6 bg-gray-50 dark:bg-gray-700 border border-gray-200 dark:border-gray-600 rounded\">"
OlOpen == "<ol class=\"list-decimal list-inside my-2 p-2 pl-6 bg-gray-50 dark:bg-gray-700 border border-gray-200 dark:border-gray-600 rounded\">"
QuoteOpen == "<blockquote class=\"border-l-4 border-gray-400 dark:border-gray-500 pl-4 pr-2 py-2 my-2 bg-gray-100 dark:bg-gray-800 rounded-r shadow-sm\">"
QuoteHeaderOpen == "<div class=\"font-semibold text-base text-gray-700 dark:text-gray-300 mb-1\">"
QuoteBodyOpen == "<div class=\"italic text-gray-800 dark:text-gray-200\">"
TableOpen == "<table class=\"border-collapse border border-gray-300 dark:border-gray-600 my-2 w-full bg-white dark:bg-gray-800 shadow text-base\">"
TrOpen == "<tr class=\"border-b border-gray-200 dark:border-gray-700 hover:bg-gray-50 dark:hover:bg-gray-700\">"
TdOpen == "<td class=\"border border-gray-200 dark:border-gray-600 p-2\">"
StrongOpen == "<strong class=\"font-bold\">"
UnderlineOpen == "<span class=\"underline\">"
EmOpen == "<em class=\"italic\">"
StrikeOpen == "<span class=\"line-through\">"
SizeOpen == "<span style=\"font-size: "
SizeAttrEnd == "%;\">"
ColorOpen == "<span style=\"color: "
FontOpen == "<span style=\"font-family: "
StyleAttrEnd == ";\">"
CenterOpen == "<div class=\"text-center\">"
RightOpen == "<div class=\"text-right\">"
JustifyOpen == "<div class=\"text-justify\">"
HrTag == "<hr class=\"my-4 border-gray-300 dark:border-gray-600\">"
MentionOpen == "<span class=\"text-blue-500 dark:text-blue-400 font-semibold hover:underline cursor-pointer\">"
Br == "<br />"

(* blockTagNames: the generated tokens that openingBlockTagPattern and     *)
(* closingBlockTagPattern match.                                           *)
OpenBlockTags ==
  {PreCodeOpen, PreOpen, SpoilerDivStart, YtOpen, LiOpen, UlOpen, OlOpen,
   QuoteOpen, QuoteHeaderOpen, QuoteBodyOpen, TableOpen, TrOpen, TdOpen,
   CenterOpen, RightOpen, JustifyOpen, HrTag}

CloseBlockTags ==
  {"</pre>", "</div>", "</ul>", "</ol>", "</li>", "</blockquote>",
   "</table>", "</tr>", "</td>"}

(* Generated tokens whose first angle bracket is "<".                      *)
LtFirstTags ==
  OpenBlockTags \cup CloseBlockTags \cup
  {CodeOpen, "</code>", SpoilerButtonOpen, SpoilerSpanOpen, "</span>",
   ImgOpen, AnchorOpen, "</a>", YtFrameOpen, "</iframe>", StrongOpen,
   "</strong>", UnderlineOpen, EmOpen, "</em>", StrikeOpen, SizeOpen,
   ColorOpen, FontOpen, "<sub>", "</sub>", "<sup>", "</sup>", MentionOpen,
   Br, "<"}

(* Generated tokens that close an attribute and then the tag: their first  *)
(* angle bracket is ">".                                                   *)
GtFirstTags ==
  {SpoilerButtonClose, ImgClass, AnchorAttrs, YtFrameAttrs, SizeAttrEnd,
   StyleAttrEnd, ">"}

(* The tokens in which escapeHtml finds a character to rewrite.            *)
HtmlSignificant == LtFirstTags \cup GtFirstTags \cup {"&", "\"", "'"}

Whitespace == {" ", "\n", "\r", "\t"}

IsWs(tok) == tok.e = 0 /\ tok.t \in Whitespace

(* Tokens made only of [a-zA-Z0-9_], with their length in characters.      *)
WordLen(tok) ==
  IF tok.e # 0 THEN 0
  ELSE CASE tok.t \in {"x", "y", "0", "1", "3", "5", "9"} -> 1
         [] tok.t = "ab" -> 2
         [] tok.t \in {"one", "two"} -> 3
         [] tok.t = "Show" -> 4
         [] tok.t = "dQw4w9WgXcQ" -> 11
         [] tok.t \in {"LIST_ITEM_PLACEHOLDER", "list_item_placeholder"} -> 21
         [] OTHER -> 0

---------------------------------------------------------------------------
(* escapeHtml and trim *)

escapeHtmlTok(tok) ==
  IF tok.e > 0 \/ tok.t \in HtmlSignificant THEN [tok EXCEPT !.e = @ + 1]
  ELSE tok

escapeHtml(unsafe) == [i \in 1..Len(unsafe) |-> escapeHtmlTok(unsafe[i])]

trim(s) ==
  LET K == {i \in 1..Len(s) : ~IsWs(s[i])}
  IN IF K = {} THEN <<>> ELSE SubSeq(s, Min(K), Max(K))

---------------------------------------------------------------------------
(* Stage 0 and stage 1: line breaks and the literal regions *)

(* html.replace(/\r\n?/g, '\n') *)
NormalizeLineBreaks(s) ==
  Remove([i \in 1..Len(s) |-> IF IsExact(s, i, "\r") THEN T("\n") ELSE s[i]],
         {i \in 1..Len(s) : IsExact(s, i, "\n") /\ IsExact(s, i - 1, "\r")})

(* A literal stage whose pattern is greedy: one region from the first open *)
(* tag to the last close tag.                                              *)
LiteralRegionGreedy(s, k, head, open, close) ==
  LET i == NextTag(s, k, head)
      J == IF i = 0 THEN {}
           ELSE {j \in (i + 2)..(Len(s) - 1) :
                   TagAt(s, j, IF head = "[code" THEN "[/code" ELSE "[/pre")}
  IN IF J = {} THEN SubSeq(s, k, Len(s))
     ELSE SubSeq(s, k, i - 1) \o open
          \o escapeHtml(trim(SubSeq(s, i + 2, Max(J) - 1))) \o close
          \o SubSeq(s, Max(J) + 2, Len(s))

(* html.replace(/\[tag\]([\s\S]*?)\[\/tag\]/gi, ...) for tag = code, pre:  *)
(* each open tag is paired with the nearest close tag after it.            *)
RECURSIVE LiteralRegion(_, _, _, _, _)
LiteralRegion(s, k, head, open, close) ==
  LET i == NextTag(s, k, head)
      j == IF i = 0 THEN 0
           ELSE NextTag(s, i + 2, IF head = "[code" THEN "[/code" ELSE "[/pre")
  IN IF j = 0 THEN SubSeq(s, k, Len(s))
     ELSE SubSeq(s, k, i - 1) \o open
          \o escapeHtml(trim(SubSeq(s, i + 2, j - 1))) \o close
          \o LiteralRegion(s, j + 2, head, open, close)

CodeStage(s) ==
  LiteralRegion(s, 1, "[code", Lit(<<PreCodeOpen, CodeOpen>>),
                Lit(<<"</code>", "</pre>">>))

PreStage(s) ==
  LiteralRegion(s, 1, "[pre", Lit(<<PreOpen>>), Lit(<<"</pre>">>))

---------------------------------------------------------------------------
(* The rule table *)

(* The rule table without the internal list-item rule.                     *)
rulesWithoutItemRule ==
  <<"spoiler", "img", "url", "yt",
    "ulist", "olist", "quote", "table", "tr", "td", "b", "u", "i", "s",
    "size", "color", "font", "center", "right", "justify", "sub", "sup",
    "hr">>

rules ==
  <<"spoiler", "img", "url", "yt", "list_item_placeholder_internal",
    "ulist", "olist", "quote", "table", "tr", "td", "b", "u", "i", "s",
    "size", "color", "font", "center", "right", "justify", "sub", "sup",
    "hr">>

(* Head of the open tag without a parameter ("" when the rule has none).   *)
PlainHead(r) ==
  CASE r = "ulist" -> "[list"
    [] r = "olist" -> "[list=1"
    [] r \in {"size", "color", "font", "list_item_placeholder_internal"} -> ""
    [] OTHER -> "[" \o r

(* Head of the open tag that takes a parameter ("" when there is none).    *)
ParamHead(r) ==
  IF r \in {"spoiler", "url", "quote", "size", "color", "font"}
  THEN "[" \o r \o "=" ELSE ""

(* Close tags in which the b rule's is a copy of the url rule's.           *)
CloseHeadCopied(r) ==
  IF r \in {"ulist", "olist"} THEN "[/list"
  ELSE IF r = "b" THEN "[/url" ELSE "[/" \o r

CloseHead(r) ==
  IF r \in {"ulist", "olist"} THEN "[/list" ELSE "[/" \o r

Digits == {"0", "1", "3", "5", "9"}

DigitValue(str) ==
  CASE str = "0" -> 0 [] str = "1" -> 1 [] str = "3" -> 3
    [] str = "5" -> 5 [] str = "9" -> 9

IsDigit(tok) == tok.e = 0 /\ tok.t \in Digits

(* The parameter classes of the open-tag patterns.                         *)
ParamOk(r, p) ==
  CASE r \in {"spoiler", "url"} ->
         \A i \in 1..Len(p) : ~(p[i].e = 0 /\ p[i].t = "\n")
    [] r = "size" -> Len(p) \in 1..3 /\ \A i \in 1..Len(p) : IsDigit(p[i])
    [] r = "color" ->
         Len(p) >= 1 /\ \A i \in 1..Len(p) :
            WordLen(p[i]) > 0 \/ (p[i].e = 0 /\ p[i].t \in {"#", "(", ")", "-"})
    [] r = "font" ->
         Len(p) >= 1 /\ \A i \in 1..Len(p) :
            WordLen(p[i]) > 0 \/ IsWs(p[i]) \/ (p[i].e = 0 /\ p[i].t \in {",", "-"})
    [] r = "quote" -> Len(p) >= 1 /\ \A i \in 1..Len(p) : ~IsWs(p[i])
    [] OTHER -> FALSE

(* The body classes: (.*?) of img stops at a line break, yt takes eleven   *)
(* characters of [a-zA-Z0-9_-].                                            *)
RECURSIVE YtLen(_)
YtLen(b) ==
  IF b = <<>> THEN 0
  ELSE LET n == IF IsExact(b, 1, "-") THEN 1 ELSE WordLen(b[1])
       IN IF n = 0 THEN 12 ELSE n + YtLen(Tail(b))

BodyOk(r, b) ==
  CASE r = "img" -> \A i \in 1..Len(b) : ~(b[i].e = 0 /\ b[i].t = "\n")
    [] r = "yt" -> YtLen(b) = 11
    [] OTHER -> TRUE

NoMatch == [from |-> 0, to |-> 0, quoted |-> FALSE, p |-> <<>>, body |-> <<>>]

(* [quote="author"]: the quoted alternative of the quote pattern; the      *)
(* index of the closing "]" or 0.                                          *)
QuotedEnd(s, i) ==
  IF IsTok(s, i, "[quote=") /\ IsTok(s, i + 1, "\"")
  THEN LET j == NextTok(s, i + 3, "\"")
       IN IF j # 0 /\ IsTok(s, j + 1, "]") THEN j + 1 ELSE 0
  ELSE 0

(* Index of the "]" that ends an open tag of rule r starting at i, or 0.   *)
OpenEnd(r, s, i) ==
  IF PlainHead(r) # "" /\ TagAt(s, i, PlainHead(r)) THEN i + 1
  ELSE IF ParamHead(r) # "" /\ IsTok(s, i, ParamHead(r))
  THEN IF r = "quote" /\ QuotedEnd(s, i) # 0 THEN QuotedEnd(s, i)
       ELSE LET j == NextTok(s, i + 1, "]")
            IN IF j # 0 /\ ParamOk(r, SubSeq(s, i + 1, j - 1)) THEN j ELSE 0
  ELSE 0

SentinelAt(s, i) ==
  IsTok(s, i, "%%") /\ IsTok(s, i + 1, "LIST_ITEM_PLACEHOLDER")
  /\ IsTok(s, i + 2, "%%")

(* The match of rule r's regex that starts exactly at index i.             *)
MatchAt(r, s, i) ==
  LET Item(q) == [NoMatch EXCEPT !.from = i, !.to = q - 1,
                                  !.body = SubSeq(s, i + 3, q - 1)]
      Closed(oe, j, qd) ==
        IF j = 0 \/ ~BodyOk(r, SubSeq(s, oe + 1, j - 1)) THEN NoMatch
        ELSE [from |-> i, to |-> j + 1, quoted |-> qd,
              p |-> IF qd THEN SubSeq(s, i + 2, oe - 2)
                    ELSE SubSeq(s, i + 1, oe - 1),
              body |-> SubSeq(s, oe + 1, j - 1)]
      Opened(oe) ==
        IF oe = 0 THEN NoMatch
        ELSE Closed(oe, NextTag(s, oe + 1, CloseHead(r)),
                    r = "quote" /\ QuotedEnd(s, i) # 0)
  IN CASE r = "hr" ->
            IF TagAt(s, i, "[hr")
            THEN [NoMatch EXCEPT !.from = i, !.to = i + 1] ELSE NoMatch
       [] r = "list_item_placeholder_internal" ->
            IF SentinelAt(s, i)
            THEN Item(Min({j \in (i + 3)..(Len(s) + 1) :
                              \/ j = Len(s) + 1
                              \/ SentinelAt(s, j)
                              \/ IsTok(s, j, "</ul>")
                              \/ IsTok(s, j, "</ol>")}))
            ELSE NoMatch
       [] OTHER -> Opened(OpenEnd(r, s, i))

(* Where a match of rule r can start.                                      *)
Candidate(r, s, i) ==
  s[i].e = 0 /\
  CASE r = "list_item_placeholder_internal" -> s[i].t = "%%"
    [] r = "hr" -> Fold(s[i].t) = "[hr"
    [] OTHER -> Fold(s[i].t) \in {PlainHead(r), ParamHead(r)}

(* The successive non-overlapping matches of a global replace, from k on.  *)
RECURSIVE Matches(_, _, _)
Matches(r, s, k) ==
  LET Then(m) == <<m>> \o Matches(r, s, m.to + 1)
      Leftmost(C) == IF C = {} THEN <<>> ELSE Then(MatchAt(r, s, Min(C)))
  IN Leftmost({i \in k..Len(s) :
                 Candidate(r, s, i) /\ MatchAt(r, s, i).from # 0})

(* rule.regex.test(html) for a regex with the g flag: the search starts   *)
(* at the regex's lastIndex k (k tokens are skipped).                      *)
TestFrom(r, s, k) ==
  \E i \in (k + 1)..Len(s) : Candidate(r, s, i) /\ MatchAt(r, s, i).from # 0

(* rule.regex.test(html) of a regex whose lastIndex is 0.                  *)
Test(r, s) == TestFrom(r, s, 0)

(* The lastIndex test leaves: the end of the match it found, 0 when it     *)
(* found none.                                                             *)
LastIndexAfterTest(r, s, k) ==
  LET End(C) == IF C = {} THEN 0 ELSE MatchAt(r, s, Min(C)).to
  IN End({i \in (k + 1)..Len(s) :
            Candidate(r, s, i) /\ MatchAt(r, s, i).from # 0})

(* A regex whose lastIndex survives html.replace.                          *)
LastIndexKept(k) == k

(* html.replace(regex, ...) with a g regex sets lastIndex to 0 before the  *)
(* first search and leaves it 0, whatever test left there (k).             *)
LastIndexAfterReplace(k) == 0

---------------------------------------------------------------------------
(* The replacement callbacks.  Piece(r, m) is the text a callback returns  *)
(* for match m: pre, then parseBBCode(arg) when rec, then post.            *)

Sentinel == Lit(<<"%%", "LIST_ITEM_PLACEHOLDER", "%%">>)

(* match[1].replace(/\[\*\]/gi, '%%LIST_ITEM_PLACEHOLDER%%') *)
ReplaceItemMarkers(b) ==
  Flatten([i \in 1..Len(b) |->
             IF TagAt(b, i, "[*") THEN Sentinel
             ELSE IF TagAt(b, i - 1, "[*") THEN <<>>
             ELSE <<b[i]>>])

ExactSentinelAt(s, i) ==
  IsExact(s, i, "%%") /\ IsExact(s, i + 1, "LIST_ITEM_PLACEHOLDER")
  /\ IsExact(s, i + 2, "%%")

(* content.replace(/^(?:S)+|(?:S)+$/g, ''): the leading run of sentinels   *)
(* and the run of sentinels that reaches the end are removed.              *)
StripEnds(c) ==
  LET lead == Max({n \in 0..(Len(c) \div 3) :
                     \A k \in 0..(n - 1) : ExactSentinelAt(c, 3 * k + 1)})
      d == SubSeq(c, 3 * lead + 1, Len(c))
      trail == Max({n \in 0..(Len(d) \div 3) :
                      \A k \in 1..n : ExactSentinelAt(d, Len(d) - 3 * k + 1)})
  IN SubSeq(d, 1, Len(d) - 3 * trail)

RECURSIVE parseInt(_)
parseInt(p) ==
  IF p = <<>> THEN 0
  ELSE 10 * parseInt(SubSeq(p, 1, Len(p) - 1)) + DigitValue(p[Len(p)].t)

Clamp(n) == IF n < 50 THEN 50 ELSE IF n > 300 THEN 300 ELSE n

(* Tokens made only of the letters a-z in either case.                     *)
IsLetters(tok) ==
  tok.e = 0 /\ tok.t \in {"x", "y", "ab", "one", "two", "Show"}

(* The number of letter tokens s starts with.                              *)
LeadingLetters(s) ==
  Max({n \in 0..Len(s) : \A k \in 1..n : IsLetters(s[k])})

(* The test of the url callback: /^(?:[a-z]+:)?\/\//i matches href, or    *)
(* href starts with "/", "#" or "mailto:".  The letters before the colon   *)
(* can span tokens: n letter tokens, then a token of letters and "://", or *)
(* a token of letters and ":" with "//" after it.                          *)
HasScheme(href) ==
  LET After(n) ==
        \/ \E str \in {"http://", "https://", "HTTP://"} :
             IsExact(href, n + 1, str)
        \/ /\ \E str \in {"mailto:", "MAILTO:"} : IsExact(href, n + 1, str)
           /\ IsExact(href, n + 2, "//")
  IN \/ \E str \in {"//", "/", "#", "mailto:"} : IsExact(href, 1, str)
     \/ After(LeadingLetters(href))

InvalidSrc(src) ==
  \/ src = <<>>
  \/ Len(src) = 1 /\ src[1].e = 0
     /\ src[1].t \in {"http://", "https://", "HTTP://"}

(* A template that leaves its element open.                                *)
WrapUnclosed(open, arg, close) ==
  [pre |-> Lit(<<open>>), arg |-> arg, post |-> <<>>, rec |-> TRUE]

Wrap(open, arg, close) ==
  [pre |-> Lit(<<open>>), arg |-> arg, post |-> Lit(<<close>>), rec |-> TRUE]

Piece(r, m) ==
  CASE r = "spoiler" ->
         LET titleText == IF m.p # <<>> THEN escapeHtml(trim(m.p)) ELSE <<>>
             buttonValue == IF titleText # <<>>
                            THEN Lit(<<"Show", " ">>) \o titleText
                            ELSE Lit(<<"Show", " ", "Spoiler">>)
         IN [pre |-> Lit(<<SpoilerDivStart, SpoilerButtonOpen>>) \o buttonValue
                     \o Lit(<<SpoilerButtonClose, SpoilerSpanOpen>>),
             arg |-> m.body, post |-> Lit(<<"</span>", "</div>">>),
             rec |-> TRUE]
    [] r = "img" ->
         LET src == trim(m.body)
         IN [pre |-> IF InvalidSrc(src) THEN Lit(<<"[Invalid Image", "]">>)
                     ELSE Lit(<<ImgOpen>>) \o escapeHtml(src) \o Lit(<<ImgClass>>),
             arg |-> <<>>, post |-> <<>>, rec |-> FALSE]
    [] r = "url" ->
         LET target == IF m.p # <<>> THEN trim(m.p) ELSE trim(m.body)
             textContent == IF m.p # <<>> THEN m.body ELSE target
             href == IF HasScheme(target) THEN target
                     ELSE Lit(<<"http://">>) \o target
         IN [pre |-> Lit(<<AnchorOpen>>) \o escapeHtml(href) \o Lit(<<AnchorAttrs>>),
             arg |-> textContent, post |-> Lit(<<"</a>">>), rec |-> TRUE]
    [] r = "yt" ->
         [pre |-> Lit(<<YtOpen, YtFrameOpen>>) \o m.body
                  \o Lit(<<YtFrameAttrs, "</iframe>", "</div>">>),
          arg |-> <<>>, post |-> <<>>, rec |-> FALSE]
    [] r = "list_item_placeholder_internal" -> Wrap(LiOpen, trim(m.body), "</li>")
    [] r = "ulist" -> Wrap(UlOpen, StripEnds(ReplaceItemMarkers(m.body)), "</ul>")
    [] r = "olist" -> Wrap(OlOpen, StripEnds(ReplaceItemMarkers(m.body)), "</ol>")
    [] r = "quote" ->
         LET header == IF m.p # <<>>
                       THEN Lit(<<QuoteHeaderOpen>>) \o escapeHtml(trim(m.p))
                            \o Lit(<<" ", "wrote:", "</div>">>)
                       ELSE <<>>
         IN [pre |-> Lit(<<QuoteOpen>>) \o header \o Lit(<<QuoteBodyOpen>>),
             arg |-> m.body, post |-> Lit(<<"</div>", "</blockquote>">>),
             rec |-> TRUE]
    [] r = "table" -> Wrap(TableOpen, m.body, "</table>")
    [] r = "tr" -> Wrap(TrOpen, m.body, "</tr>")
    [] r = "td" -> Wrap(TdOpen, m.body, "</td>")
    [] r = "b" -> Wrap(StrongOpen, m.body, "</strong>")
    [] r = "u" -> Wrap(UnderlineOpen, m.body, "</span>")
    [] r = "i" -> Wrap(EmOpen, m.body, "</em>")
    [] r = "s" -> Wrap(StrikeOpen, m.body, "</span>")
    [] r = "size" ->
         [pre |-> Lit(<<SizeOpen, ToString(Clamp(parseInt(m.p))), SizeAttrEnd>>),
          arg |-> m.body, post |-> Lit(<<"</span>">>), rec |-> TRUE]
    [] r = "color" ->
         [pre |-> Lit(<<ColorOpen>>) \o escapeHtml(m.p) \o Lit(<<StyleAttrEnd>>),
          arg |-> m.body, post |-> Lit(<<"</span>">>), rec |-> TRUE]
    [] r = "font" ->
         [pre |-> Lit(<<FontOpen>>) \o escapeHtml(m.p) \o Lit(<<StyleAttrEnd>>),
          arg |-> m.body, post |-> Lit(<<"</span>">>), rec |-> TRUE]
    [] r = "center" -> Wrap(CenterOpen, m.body, "</div>")
    [] r = "right" -> Wrap(RightOpen, m.body, "</div>")
    [] r = "justify" -> Wrap(JustifyOpen, m.body, "</div>")
    [] r = "sub" -> Wrap("<sub>", m.body, "</sub>")
    [] r = "sup" -> Wrap("<sup>", m.body, "</sup>")
    [] r = "hr" ->
         [pre |-> Lit(<<HrTag>>), arg |-> <<>>, post |-> <<>>, rec |-> FALSE]

---------------------------------------------------------------------------
(* Post-processing *)

(* html.replace(/%%LIST_ITEM_PLACEHOLDER%%/g, ''): the matches are taken    *)
(* left to right without overlap.  Two occurrences can only overlap in a   *)
(* shared "%%", two tokens apart, so an occurrence is a match unless the   *)
(* occurrence two tokens before it is one.                                 *)
StripSentinels(s) ==
  LET C == {i \in 1..Len(s) : ExactSentinelAt(s, i)}
      Before(i) == Max({k \in 0..(i \div 2) :
                         \A m \in 1..k : (i - 2 * m) \in C})
      M == {i \in C : Before(i) % 2 = 0}
  IN Remove(s, UNION {{i, i + 1, i + 2} : i \in M})

(* (^|[\s>([]) of the mention pattern: the character before the "@".       *)
PrefixOk(s, k) ==
  \/ k = 1
  \/ /\ s[k - 1].e = 0
     /\ \/ s[k - 1].t \in Whitespace \cup {"(", "["}
        \/ s[k - 1].t \in GtFirstTags
        \/ s[k - 1].t \in LtFirstTags \ {SpoilerButtonOpen, ImgOpen, AnchorOpen,
                                        YtFrameOpen, SizeOpen, ColorOpen,
                                        FontOpen, "<"}

(* ([a-zA-Z0-9_]{2,30}): index of the last token of the name that starts   *)
(* after index j, n characters of it taken so far.                         *)
RECURSIVE NameEnd(_, _, _)
NameEnd(s, j, n) ==
  IF j < Len(s) /\ WordLen(s[j + 1]) > 0 /\ n + WordLen(s[j + 1]) <= 30
  THEN NameEnd(s, j + 1, n + WordLen(s[j + 1]))
  ELSE j

RECURSIVE CharLen(_)
CharLen(w) == IF w = <<>> THEN 0 ELSE WordLen(Head(w)) + CharLen(Tail(w))

(* (?![^<]*>|[^<>]*<\/a>): the first angle bracket after the name is a ">" *)
(* or opens the tag </a>.                                                  *)
InsideTagOrAnchor(s, k) ==
  LET A == {j \in k..Len(s) : s[j].e = 0 /\ s[j].t \in LtFirstTags \cup GtFirstTags}
  IN A # {} /\ (s[Min(A)].t \in GtFirstTags \/ s[Min(A)].t = "</a>")

MentionAt(s, k) ==
  /\ IsExact(s, k, "@")
  /\ PrefixOk(s, k)
  /\ CharLen(SubSeq(s, k + 1, NameEnd(s, k, 0))) >= 2
  /\ ~InsideTagOrAnchor(s, NameEnd(s, k, 0) + 1)

(* html.replace(mentionRegex, '$1<span ...>@$2</span>'): the prefix is not *)
(* a name character, so no match overlaps another.                         *)
LinkMentions(s) ==
  LET M == {k \in 1..Len(s) : MentionAt(s, k)}
      E == {NameEnd(s, k, 0) : k \in M}
  IN Flatten([i \in 1..Len(s) |->
        (IF i \in M THEN <<T(MentionOpen)>> ELSE <<>>) \o <<s[i]>>
        \o (IF i \in E THEN <<T("</span>")>> ELSE <<>>)])

IsBr(s, i) == IsExact(s, i, Br)

IsOpenBlock(s, i) == i >= 1 /\ i <= Len(s) /\ s[i].e = 0 /\ s[i].t \in OpenBlockTags

IsCloseBlock(s, i) == i >= 1 /\ i <= Len(s) /\ s[i].e = 0 /\ s[i].t \in CloseBlockTags

(* 1. html.replace(/\n/g, '<br />') *)
NewlinesToBr(s) ==
  [i \in 1..Len(s) |-> IF IsExact(s, i, "\n") THEN T(Br) ELSE s[i]]

(* 2. <br \/>(?=openingBlockTagPattern) -> '' *)
RemoveBrBeforeOpen(s) ==
  Remove(s, {i \in 1..Len(s) : IsBr(s, i) /\ IsOpenBlock(s, i + 1)})

(* 3. closingBlockTagPattern<br \/> -> '$1' *)
RemoveBrAfterClose(s) ==
  Remove(s, {i \in 1..Len(s) : IsBr(s, i) /\ IsCloseBlock(s, i - 1)})

(* 4. (openingBlockTagPattern)<br \/>(closingBlockTagPattern) -> '$1$2'.   *)
(* openingBlockTagPattern carries a group of its own, so $1 and $2 are     *)
(* both the opening tag: the match is replaced by the opening tag twice.   *)
CollapseSoleBr(s) ==
  LET D == {i \in 1..Len(s) :
              IsBr(s, i) /\ IsOpenBlock(s, i - 1) /\ IsCloseBlock(s, i + 1)}
  IN Remove([i \in 1..Len(s) |-> IF i \in D THEN s[i - 1] ELSE s[i]],
            {i + 1 : i \in D})

---------------------------------------------------------------------------
(* The driver: one frame per invocation of parseBBCode *)

(* A pass ceiling one higher than the source's.                            *)
SixteenPasses == 15 + 1

MAX_PASSES == 15

(* A call parseBBCode(arg): its parameter, its working string, the loop   *)
(* variables, the lastIndex of each regex of its own rules array, and the  *)
(* html.replace it is suspended in while a callback runs.                  *)
NewFrame(arg) ==
  [bbcode |-> arg, html |-> arg, currentHtml |-> <<>>, pass |-> 0,
   rule |-> 1, lastIndex |-> [r \in 1..Len(rules) |-> 0],
   pc |-> "literal", acc |-> <<>>, post |-> <<>>, todo |-> <<>>,
   tail |-> <<>>]

Top == stack[Len(stack)]

SetTop(f) == [stack EXCEPT ![Len(stack)] = f]

(* The next rule, from index k on, whose regex.test(html) succeeds; 0 when *)
(* the pass has no further rule to apply.                                  *)
NextRule(k, s, lastIndex) ==
  LET First(R) == IF R = {} THEN 0 ELSE Min(R)
  IN First({r \in k..Len(rules) : TestFrom(rules[r], s, lastIndex[r])})

(* The lastIndex of every regex after the loop went from rule k to rule r  *)
(* and replaced r's matches (r = 0: to the end of the table, no test       *)
(* succeeded): a failed test leaves 0.                                     *)
LastIndexes(k, r, s, lastIndex) ==
  [j \in 1..Len(rules) |->
     IF j < k \/ (r # 0 /\ j > r) THEN lastIndex[j]
     ELSE IF j = r
     THEN LastIndexAfterReplace(LastIndexAfterTest(rules[j], s, lastIndex[j]))
     ELSE 0]

(* The matches of rule r in html, each with the text before it and the     *)
(* pieces of its replacement.                                              *)
Parts(r, html) ==
  LET Cut(ms) ==
        [k \in 1..Len(ms) |->
           [gap |-> SubSeq(html, IF k = 1 THEN 1 ELSE ms[k - 1].to + 1,
                           ms[k].from - 1),
            piece |-> Piece(r, ms[k])]]
  IN Cut(Matches(r, html, 1))

(* The text after the last match of rule r in html.                        *)
Rest(r, html) ==
  LET After(ms) == SubSeq(html, ms[Len(ms)].to + 1, Len(html))
  IN After(Matches(r, html, 1))

(* lines 46-58 *)
AfterLiteralRegions(f) ==
  LET h == PreStage(CodeStage(NormalizeLineBreaks(f.html)))
  IN [f EXCEPT !.html = h, !.currentHtml = h, !.pc = "rules"]

LiteralRegions ==
  /\ Top.pc = "literal"
  /\ stack' = SetTop(AfterLiteralRegions(Top))
  /\ UNCHANGED <<bbcode, returned, uiVars>>

(* The stack after html.replace of the next rule whose regex.test          *)
(* succeeds.  A callback that calls parseBBCode suspends the frame and     *)
(* pushes the callee's.                                                    *)
AfterApplyRule(f) ==
  LET Replaced(r, parts, rest) ==
        IF parts[1].piece.rec
        THEN <<[f EXCEPT !.rule = r, !.pc = "call",
                         !.lastIndex = LastIndexes(f.rule, r, f.html, @),
                         !.acc = parts[1].gap \o parts[1].piece.pre,
                         !.post = parts[1].piece.post,
                         !.todo = Tail(parts), !.tail = rest],
               NewFrame(parts[1].piece.arg)>>
        ELSE <<[f EXCEPT
                  !.html = Flatten([k \in 1..Len(parts) |->
                                      parts[k].gap \o parts[k].piece.pre])
                           \o rest,
                  !.lastIndex = LastIndexes(f.rule, r, f.html, @),
                  !.rule = r + 1]>>
      Applied(r) == Replaced(r, Parts(rules[r], f.html), Rest(rules[r], f.html))
  IN Applied(NextRule(f.rule, f.html, f.lastIndex))

(* One iteration of the inner loop (lines 223-236) whose regex.test        *)
(* succeeds.                                                               *)
ApplyRule ==
  /\ Top.pc = "rules"
  /\ NextRule(Top.rule, Top.html, Top.lastIndex) # 0
  /\ stack' = SubSeq(stack, 1, Len(stack) - 1) \o AfterApplyRule(Top)
  /\ UNCHANGED <<bbcode, returned, uiVars>>

(* The caller f after its callee returned result: the callback returns     *)
(* pre + result + post; replace goes on to the next match (and calls       *)
(* parseBBCode again) or finishes the rule.                                *)
AfterReturn(f, result) ==
  LET acc == f.acc \o result \o f.post
  IN IF f.todo = <<>>
     THEN <<[f EXCEPT !.html = acc \o f.tail, !.rule = f.rule + 1,
                      !.pc = "rules", !.acc = <<>>, !.post = <<>>,
                      !.tail = <<>>]>>
     ELSE <<[f EXCEPT !.acc = acc \o f.todo[1].gap \o f.todo[1].piece.pre,
                      !.post = f.todo[1].piece.post,
                      !.todo = Tail(f.todo)],
            NewFrame(f.todo[1].piece.arg)>>

Return ==
  /\ Len(stack) > 1
  /\ Top.pc = "done"
  /\ stack' = SubSeq(stack, 1, Len(stack) - 2)
              \o AfterReturn(stack[Len(stack) - 1], Top.html)
  /\ UNCHANGED <<bbcode, returned, uiVars>>

(* A loop without the break at line 239.                                   *)
AfterPassWithoutBreak(f) ==
  IF f.pass + 1 >= MAX_PASSES
  THEN [f EXCEPT !.pc = "strip", !.pass = @ + 1]
  ELSE [f EXCEPT !.pass = @ + 1, !.rule = 1, !.currentHtml = f.html]

(* The end of a pass (lines 237-244) and the loop header (line 220).       *)
AfterPass(f) ==
  LET break == f.html = f.currentHtml /\ f.pass > 0
      g == [f EXCEPT !.lastIndex = LastIndexes(f.rule, 0, f.html, @)]
  IN IF break THEN [g EXCEPT !.pc = "strip"]
     ELSE IF f.pass + 1 >= MAX_PASSES
     THEN [g EXCEPT !.pc = "strip", !.pass = @ + 1]
     ELSE [g EXCEPT !.pass = @ + 1, !.rule = 1, !.currentHtml = f.html]

EndPass ==
  /\ Top.pc = "rules"
  /\ NextRule(Top.rule, Top.html, Top.lastIndex) = 0
  /\ stack' = SetTop(AfterPass(Top))
  /\ UNCHANGED <<bbcode, returned, uiVars>>

(* line 248 *)
StripPlaceholders ==
  /\ Top.pc = "strip"
  /\ stack' = SetTop([Top EXCEPT !.html = StripSentinels(@), !.pc = "mention"])
  /\ UNCHANGED <<bbcode, returned, uiVars>>

(* lines 252-254 *)
Mentions ==
  /\ Top.pc = "mention"
  /\ stack' = SetTop([Top EXCEPT !.html = LinkMentions(@), !.pc = "breaks"])
  /\ UNCHANGED <<bbcode, returned, uiVars>>

(* lines 265-273 *)
LineBreaks ==
  /\ Top.pc = "breaks"
  /\ stack' = SetTop([Top EXCEPT
        !.html = RemoveBrAfterClose(RemoveBrBeforeOpen(NewlinesToBr(@))),
        !.pc = "sole"])
  /\ UNCHANGED <<bbcode, returned, uiVars>>

(* line 278 and the return *)
SoleBreak ==
  /\ Top.pc = "sole"
  /\ stack' = SetTop([Top EXCEPT !.html = CollapseSoleBr(@), !.pc = "done"])
  /\ returned' = Append(returned, [bbcode |-> Top.bbcode,
                                   html |-> CollapseSoleBr(Top.html)])
  /\ UNCHANGED <<bbcode, uiVars>>

Next ==
  \/ LiteralRegions
  \/ ApplyRule
  \/ Return
  \/ EndPass
  \/ StripPlaceholders
  \/ Mentions
  \/ LineBreaks
  \/ SoleBreak

Done == Len(stack) = 1 /\ stack[1].pc = "done"

Output == stack[1].html

---------------------------------------------------------------------------
(* Inputs.  An input is a sequence of items, an item a piece of authoring  *)
(* text (a tag, a word, a character), flattened into one token sequence.   *)

Tag(head) == Lit(<<head, "]">>)

SeqsUpTo(A, n) == UNION {[1..k -> A] : k \in 0..n}

Texts(A, n) == {Flatten(f) : f \in SeqsUpTo(A, n)}

MaxLiteralItems == 4

BoldX == Tag("[b") \o Lit(<<"x">>) \o Tag("[/b")

(* Literal regions, markup inside them, and the characters escapeHtml      *)
(* rewrites.                                                               *)
LiteralInputs ==
  Texts({Tag("[code"), Tag("[/code"), Tag("[pre"), Tag("[/pre"), BoldX,
         Lit(<<"<">>), Lit(<<"&">>)}, MaxLiteralItems)

MaxSentinelItems == 4

(* Lists, item markers, and text that spells the sentinel or fragments of  *)
(* it in either letter case.                                               *)
SentinelInputs ==
  Texts({Tag("[list"), Tag("[/list"), Tag("[*"), Sentinel,
         Lit(<<"%%">>), Lit(<<"LIST_ITEM_PLACEHOLDER">>)}, MaxSentinelItems)
  \cup Texts({Tag("[list=1"), Tag("[/LIST"), Tag("[*"),
              Lit(<<"%%", "list_item_placeholder", "%%">>)}, 3)

Repeat(x, n) == Flatten([k \in 1..n |-> x])

(* The same tag nested d deep around one word.                             *)
SameNest(head, close, d) ==
  Repeat(Tag(head), d) \o Lit(<<"x">>) \o Repeat(Tag(close), d)

MaxTotalItems == 3

MaxSame == 16

(* Well-formed and malformed mixtures of recursive rules, and nestings    *)
(* deep enough to reach the pass ceiling.                                  *)
TotalInputs ==
  Texts({Tag("[b"), Tag("[/b"), Tag("[list"), Tag("[/list"), Tag("[*"),
         Tag("[url"), Tag("[/url"), Lit(<<"x">>), Lit(<<"\n">>)},
        MaxTotalItems)
  \cup {SameNest("[b", "[/b", d) : d \in 1..MaxSame}
  \cup {SameNest("[list", "[/list", d) : d \in 1..MaxSame}

MaxListItems == 3

(* The body of one list item: a word, a word in blanks, marked-up text.    *)
ItemBodies == {Lit(<<"one">>), Lit(<<" ", "two", "\n">>), BoldX}

(* [list] or [list=1], optional white space, k >= 1 items, [/list].        *)
ListInputs ==
  {Tag(open) \o lead \o Flatten([j \in 1..Len(items) |-> Tag("[*") \o items[j]])
     \o Tag("[/list") :
     open \in {"[list", "[list=1"},
     lead \in {<<>>, Lit(<<" ">>), Lit(<<"\n">>)},
     items \in SeqsUpTo(ItemBodies, MaxListItems) \ {<<>>}}

MaxDigits == 4

(* [size=N]x[/size] for the decimal numerals N of up to MaxDigits digits.  *)
SizeInputs ==
  {Lit(<<"[size=">>) \o n \o Lit(<<"]", "x">>) \o Tag("[/size") :
     n \in SeqsUpTo({T(d) : d \in Digits}, MaxDigits) \ {<<>>}}

MaxNest == 3

NestTags == {"b", "i", "u", "s", "sub", "sup", "quote"}

(* [A][B]..text..[/B][/A] for the tags of a sequence.                      *)
Nest(tags, text) ==
  Flatten([k \in 1..Len(tags) |-> Tag(PlainHead(tags[k]))]) \o text
  \o Flatten([k \in 1..Len(tags) |->
                Tag(CloseHead(tags[Len(tags) + 1 - k]))])

(* The nestings of 2..MaxNest pairwise distinct tags around plain text.    *)
NestInputs ==
  {Nest(tags, text) :
     tags \in {f \in SeqsUpTo(NestTags, MaxNest) :
                 /\ Len(f) >= 2
                 /\ \A a, b \in 1..Len(f) : a # b => f[a] # f[b]},
     text \in {Lit(<<"one">>), Lit(<<"x", " ", "y">>)}}

MaxUnclosedItems == 4

(* Open and close tags in any order and number, so that open tags without  *)
(* a later close tag occur alone, beside closed pairs, inside them, and    *)
(* after the head of a tag that takes a parameter.                         *)
UnclosedInputs ==
  Texts({Tag("[b"), Tag("[/b"), Tag("[i"), Lit(<<"[url=">>), Tag("[/url"),
         Lit(<<"x">>)}, MaxUnclosedItems)
  \cup Texts({Tag("[code"), Tag("[/code"), Tag("[b"), Lit(<<"x">>)}, 3)

MaxMentionItems == 4

AtName == Lit(<<"@", "ab">>)

(* Plain text with @names and angle brackets, and links with an @name in   *)
(* the target or in the link text.                                         *)
MentionInputs ==
  Texts({AtName, Lit(<<" ">>), Lit(<<">">>), Lit(<<"x">>),
         Lit(<<"[url=", "x", "]">>), Tag("[url"), Tag("[/url")},
        MaxMentionItems)

MaxBreakItems == 4

(* Newlines, singly and in runs, around text and block constructs.         *)
BreakInputs ==
  Texts({Lit(<<"\n">>), Tag("[center"), Tag("[/center"), Tag("[hr"),
         Lit(<<"x">>)}, MaxBreakItems)

MaxEscapeItems == 3

(* Literal regions inside literal regions, and tag text with a parameter   *)
(* inside a literal region, around the characters escapeHtml rewrites.     *)
EscapeInputs ==
  {Tag("[pre") \o t \o Tag("[/pre") :
     t \in Texts({Tag("[code"), Tag("[/code"), Lit(<<"&">>), Lit(<<"<">>)},
                 MaxEscapeItems)}
  \cup {Tag("[code") \o t \o Tag("[/code") :
          t \in Texts({Lit(<<"[url=">>), Lit(<<"&">>), Lit(<<"]">>),
                       Lit(<<"x">>), Tag("[/url")}, MaxEscapeItems + 1)}

MaxRepeatItems == 4

(* Inputs in which parseBBCode is called on the same text more than once:  *)
(* list items and sibling elements with equal bodies.                      *)
RepeatInputs ==
  ListInputs
  \cup Texts({BoldX, Lit(<<"x">>), Tag("[i"), Tag("[/i")}, MaxRepeatItems)

MaxUrlItems == 3

(* Links whose target holds bracket tag text, newlines or an @name: the    *)
(* target as the body of [url] and as the parameter of [url=...].          *)
UrlInputs ==
  {Tag("[url") \o t \o Tag("[/url") :
     t \in Texts({Tag("[b"), Tag("[/b"), Lit(<<"x">>), Lit(<<"\n">>), AtName},
                 MaxUrlItems)}
  \cup {Lit(<<"[url=">>) \o t \o Lit(<<"]", "x">>) \o Tag("[/url") :
          t \in Texts({Lit(<<"x">>), Lit(<<"[b">>), Lit(<<" ">>), AtName},
                      MaxUrlItems - 1)}

MaxImgItems == 3

(* [img]source[/img] for sources made of blanks, bare schemes in either    *)
(* letter case, words, a character escapeHtml rewrites, and tag text.      *)
ImgInputs ==
  {Tag("[img") \o src \o Tag("[/img") :
     src \in Texts({Lit(<<" ">>), Lit(<<"http://">>), Lit(<<"HTTP://">>),
                    Lit(<<"https://">>), Lit(<<"x">>), Lit(<<"&">>),
                    Tag("[b"), Tag("[/b")}, MaxImgItems)}

MaxMentionNest == 2

(* An @name inside 0..MaxMentionNest paired tags.                          *)
NestedMentionInputs ==
  {Nest(tags, AtName) : tags \in SeqsUpTo(NestTags, MaxMentionNest)}

MaxRegionItems == 3

(* One [code] or [pre] region, bare or inside [b]...[/b], around words,    *)
(* blanks, newlines, an @name and a character escapeHtml rewrites.         *)
RegionInputs ==
  {Tag(tag[1]) \o t \o Tag(tag[2]) :
     tag \in {<<"[code", "[/code">>, <<"[pre", "[/pre">>},
     t \in Texts({Lit(<<"x">>), Lit(<<" ">>), Lit(<<"\n">>), AtName,
                  Lit(<<"&">>)}, MaxRegionItems)}
  \cup
  {Tag("[b") \o Tag(tag[1]) \o t \o Tag(tag[2]) \o Tag("[/b") :
     tag \in {<<"[code", "[/code">>, <<"[pre", "[/pre">>},
     t \in Texts({Lit(<<"x">>), Lit(<<"\n">>), AtName}, MaxRegionItems - 1)}

MaxTargetItems == 2

(* The pieces of a link target: words, blanks, schemes with and without a  *)
(* digit and in either letter case, the path, fragment and mail markers,   *)
(* and a character escapeHtml rewrites.                                    *)
TargetTexts ==
  Texts({Lit(<<"x">>), Lit(<<" ">>), Lit(<<"http://">>), Lit(<<"HTTP://">>),
         Lit(<<"s3://">>), Lit(<<"//">>), Lit(<<"/">>), Lit(<<"#">>),
         Lit(<<"mailto:">>), Lit(<<"MAILTO:">>), Lit(<<"&">>)},
        MaxTargetItems)

(* [url=T]body[/url] and [url]T[/url] for these targets.                   *)
TargetInputs ==
  {Lit(<<"[url=">>) \o t \o Lit(<<"]">>) \o body \o Tag("[/url") :
     t \in TargetTexts, body \in {Lit(<<"x">>), Lit(<<" ", "y", " ">>)}}
  \cup {Tag("[url") \o t \o Tag("[/url") : t \in TargetTexts}

MaxPairs == 2

(* What stands between two literal regions.                                *)
Between == {<<>>, Lit(<<"x">>), BoldX}

(* 1..MaxPairs regions of one kind, [code] or [pre], with text or markup   *)
(* between one region and the next.                                        *)
PairInputs ==
  {Flatten([k \in 1..Len(c) |->
              Tag(tag[1]) \o c[k].content \o Tag(tag[2]) \o c[k].then]) :
     tag \in {<<"[code", "[/code">>, <<"[pre", "[/pre">>},
     c \in SeqsUpTo([content : {Lit(<<"x">>), Lit(<<" ", "y", " ">>),
                                Lit(<<"&">>)},
                     then : Between], MaxPairs) \ {<<>>}}

MaxNearestItems == 4

(* The paired rules whose open tag can be written without a parameter.     *)
PlainPaired ==
  {"spoiler", "img", "url", "ulist", "olist", "quote", "table", "tr", "td",
   "b", "u", "i", "s", "center", "right", "justify", "sub", "sup"}

(* open a open b close c close for one kind of tag.                        *)
DoubleNest(open, close) ==
  open \o Lit(<<"x">>) \o open \o Lit(<<"y">>) \o close \o Lit(<<"one">>)
  \o close

(* Every paired rule with a second open tag before its first close tag,   *)
(* and open and close tags of two kinds in any order, in either letter     *)
(* case.                                                                   *)
NearestInputs ==
  {DoubleNest(Tag(PlainHead(r)), Tag(CloseHead(r))) : r \in PlainPaired}
  \cup {DoubleNest(Lit(<<"[size=", "1", "5", "0", "]">>), Tag("[/size")),
        DoubleNest(Lit(<<"[color=", "x", "]">>), Tag("[/color")),
        DoubleNest(Lit(<<"[font=", "x", "]">>), Tag("[/font")),
        DoubleNest(Lit(<<"[url=", "x", "]">>), Tag("[/url"))}
  \cup Texts({Tag("[b"), Tag("[/b"), Tag("[/B"), Tag("[i"), Tag("[/i"),
              Lit(<<"x">>)}, MaxNearestItems)

(* The paired inline tags without a parameter.                             *)
InlineKinds == {"b", "i", "u", "s", "sub", "sup"}

(* One inline tag nested 1..MaxSame deep around one word.                  *)
SameInputs ==
  {SameNest(PlainHead(r), CloseHead(r), d) :
     r \in InlineKinds, d \in 1..MaxSame}

Inputs ==
  LiteralInputs \cup ListInputs \cup SizeInputs \cup MentionInputs
  \cup BreakInputs

---------------------------------------------------------------------------
(* The API-key hook (useGeminiApiKey) and its section of the modal.  A key *)
(* or a prompt is a string of tokens, like the text of the parser.  hook   *)
(* holds the values of the hook's four useState cells as of the last       *)
(* render: an event handler reads these and its updates show in the next   *)
(* render.                                                                 *)

null == "null"

(* The modal's own state after mounting: the values of its useState calls  *)
(* for aiResponse, isLoading and geminiError, and no Gemini request in     *)
(* flight.                                                                 *)
ModalMounted ==
  [aiResponse |-> <<>>, isLoading |-> FALSE, geminiError |-> null,
   inFlight |-> 0]

(* The transcription hook after mounting: its useState cells, its three    *)
(* refs (0 for null, else the number of the session whose object the ref   *)
(* holds), no getUserMedia call pending and no session yet.  getUserMedia  *)
(* and mimeType tell whether the browser has navigator.mediaDevices        *)
(* .getUserMedia and a MediaRecorder type the hook can use.                *)
DgMounted(getUserMedia, mimeType) ==
  [isRecording |-> FALSE, isTranscribing |-> FALSE,
   transcriptionStatus |-> null, deepgramError |-> null,
   permissionStatus |-> "idle",
   mediaRecorderRef |-> 0, deepgramConnectionRef |-> 0, audioStreamRef |-> 0,
   pending |-> 0, sessions |-> <<>>,
   getUserMedia |-> getUserMedia, mimeType |-> mimeType]

EmptyKeyError == "Gemini API Key cannot be empty."

(* The hook after its mount effect (lines 62-71) for a stored key and an   *)
(* environment key that is set or not.                                     *)
Mounted(storedApiKey, env) ==
  IF storedApiKey # <<>>
  THEN [userApiKey |-> storedApiKey, tempApiKey |-> storedApiKey,
        showApiKeyInput |-> FALSE, apiKeyError |-> null]
  ELSE [userApiKey |-> <<>>, tempApiKey |-> <<>>,
        showApiKeyInput |-> ~env, apiKeyError |-> null]

(* A save that stores whatever the input holds.                            *)
handleSaveApiKeyUnchecked(h, stored) ==
  [hook |-> [h EXCEPT !.userApiKey = h.tempApiKey, !.apiKeyError = null,
                      !.showApiKeyInput = FALSE],
   localStorage |-> h.tempApiKey]

(* handleSaveApiKey called in the render h with the key stored so far: the *)
(* hook state of the next render and the stored key.                       *)
handleSaveApiKey(h, stored) ==
  IF trim(h.tempApiKey) = <<>>
  THEN [hook |-> [h EXCEPT !.apiKeyError = EmptyKeyError],
        localStorage |-> stored]
  ELSE [hook |-> [h EXCEPT !.userApiKey = h.tempApiKey, !.apiKeyError = null,
                           !.showApiKeyInput = FALSE],
        localStorage |-> h.tempApiKey]

(* The section is rendered: the modal is open and no environment key is    *)
(* set (GeminiApiKeySection.tsx line 58).                                  *)
SectionShown == isOpen /\ ~API_KEY

MaxKeyItems == 2

(* What the user can type into the key input.                              *)
KeyTexts == Texts({Lit(<<" ">>), Lit(<<"k">>)}, MaxKeyItems)

MaxSaves == 3

(* onChange of the key input *)
SetTempApiKey ==
  /\ SectionShown /\ hook.showApiKeyInput
  /\ \E v \in KeyTexts : hook' = [hook EXCEPT !.tempApiKey = v]
  /\ UNCHANGED <<bbcode, stack, returned, dg, modal,
                 localStorage, API_KEY, saves,
                 isOpen, userPrompt, connection, events, calls>>

(* onClick of the button that shows or hides the input *)
ToggleApiKeyInput ==
  /\ SectionShown
  /\ hook' = [hook EXCEPT !.showApiKeyInput = ~@]
  /\ UNCHANGED <<bbcode, stack, returned, dg, modal,
                 localStorage, API_KEY, saves,
                 isOpen, userPrompt, connection, events, calls>>

(* handleSave, the onClick of Save API Key: handleSaveApiKey, then the     *)
(* callback unless apiKeyState.apiKeyError, the value of the render the    *)
(* handler was created in, is set.  saves logs for each click whether the  *)
(* key was stored and whether onApiKeySaved was called.                    *)
HandleSave ==
  /\ SectionShown /\ hook.showApiKeyInput
  /\ Len(saves) < MaxSaves
  /\ hook' = handleSaveApiKey(hook, localStorage).hook
  /\ localStorage' = handleSaveApiKey(hook, localStorage).localStorage
  /\ saves' = Append(saves, [saved |-> trim(hook.tempApiKey) # <<>>,
                             notified |-> hook.apiKeyError = null])
  /\ UNCHANGED <<bbcode, stack, returned, dg, modal,
                 API_KEY, isOpen, userPrompt,
                 connection, events, calls>>

KeyNext == SetTempApiKey \/ ToggleApiKeyInput \/ HandleSave

(* No call of parseBBCode is in progress.                                  *)
NoCall == bbcode = <<>> /\ stack = <<>> /\ returned = <<>>

(* The modal open with the hook mounted, for the keys an earlier save can  *)
(* have stored and with or without an environment key.                     *)
KeyInit ==
  /\ NoCall
  /\ localStorage \in {k \in KeyTexts : k = <<>> \/ trim(k) # <<>>}
  /\ API_KEY \in BOOLEAN
  /\ hook = Mounted(localStorage, API_KEY)
  /\ saves = <<>>
  /\ isOpen = TRUE
  /\ userPrompt = <<>>
  /\ connection = "none"
  /\ events = <<>>
  /\ calls = <<>>
  /\ dg = DgMounted(TRUE, TRUE)
  /\ modal = ModalMounted

KeySpec == KeyInit /\ [][KeyNext]_vars

---------------------------------------------------------------------------
(* The transcription hook (useDeepgramTranscription) with its refs and the *)
(* objects behind them.  Each granted microphone request starts a session: *)
(* the MediaStream it got, the live connection created for it and the      *)
(* MediaRecorder the connection's Open handler creates.  A session record  *)
(* holds the stream ("live" or "stopped": its tracks were stopped), the    *)
(* connection's ready state, and the recorder: "none" before it exists,    *)
(* "recording", "stopping" when stop() was called and the stop event is    *)
(* still to come, "inactive" after it.  The handlers of a session stay     *)
(* attached when a ref no longer points to its objects.                    *)

MaxSessions == 2

MaxTranscripts == 1

Stopping == "Stopping recording..."
Requesting == "Requesting microphone permission..."
NotSupported == "Microphone access is not supported by your browser."
Denied == "Microphone permission denied. Please enable microphone access in your browser settings."
Initializing == "Initializing transcription service..."
Connected == "Microphone connected. Recording..."
NoMimeType == "No suitable audio MimeType found for MediaRecorder."
Processing == "Recording stopped. Processing final audio..."
Received == "Transcript received."
Closed == "Transcription connection closed (Code: 1000). Ready to record again."
ErrorStatus == "Transcription error: ..."
ErrorMessage == "Deepgram Error: ..."

(* mediaRecorderRef.current.stop() when the recorder k is recording        *)
StopRecorder(d, k) ==
  IF k # 0 /\ d.sessions[k].recorder = "recording"
  THEN [d EXCEPT !.sessions[k].recorder = "stopping"]
  ELSE d

(* audioStreamRef.current.getTracks().forEach(track => track.stop())       *)
StopTracks(d, k) ==
  IF k # 0 THEN [d EXCEPT !.sessions[k].stream = "stopped"] ELSE d

(* cleanupDeepgram: the recorder is stopped, the refs to recorder and      *)
(* stream are cleared, the tracks stopped and both flags reset.  finish()  *)
(* on an open connection only tells the service to end the stream; the     *)
(* ref to the connection stays.                                            *)
cleanupDeepgram(d) ==
  [StopTracks(StopRecorder(d, d.mediaRecorderRef), d.audioStreamRef)
     EXCEPT !.mediaRecorderRef = 0, !.audioStreamRef = 0,
            !.isRecording = FALSE, !.isTranscribing = FALSE]

(* The record button is enabled (SpeechToTextControls, isButtonDisabled).  *)
ButtonEnabled ==
  /\ isOpen
  /\ ~(modal.isLoading /\ ~dg.isRecording /\ ~dg.isTranscribing)
  /\ dg.permissionStatus # "pending"

(* toggleRecording while recording or transcribing (lines 155-164)         *)
ToggleStop(d) ==
  LET Stopped(e) ==
        IF e.mediaRecorderRef # 0
           /\ e.sessions[e.mediaRecorderRef].recorder = "recording"
        THEN StopRecorder(e, e.mediaRecorderRef)
        ELSE cleanupDeepgram(e)
  IN [Stopped([d EXCEPT !.transcriptionStatus = Stopping,
                        !.isTranscribing = TRUE])
        EXCEPT !.isRecording = FALSE]

(* toggleRecording otherwise, up to the await: requestMicrophonePermission *)
(* as far as its call of getUserMedia (lines 166-168, 121-133).            *)
ToggleStart(d) ==
  IF ~d.getUserMedia
  THEN [d EXCEPT !.permissionStatus = "denied",
                 !.transcriptionStatus = NotSupported,
                 !.deepgramError = NotSupported]
  ELSE [d EXCEPT !.permissionStatus = "pending",
                 !.transcriptionStatus = Requesting,
                 !.deepgramError = null,
                 !.pending = @ + 1]

(* onClick of the record button *)
ToggleRecording ==
  /\ ButtonEnabled
  /\ IF dg.isRecording \/ dg.isTranscribing
     THEN dg' = ToggleStop(dg)
     ELSE /\ dg.pending + Len(dg.sessions) < MaxSessions
          /\ dg' = ToggleStart(dg)
  /\ UNCHANGED <<bbcode, stack, returned, modal, hook, localStorage,
                 API_KEY, saves, isOpen, userPrompt, connection, events,
                 calls>>

(* getUserMedia resolves: the rest of requestMicrophonePermission and of   *)
(* toggleRecording (lines 135-137, 169-188): a new session.                *)
PermissionGranted ==
  /\ dg.pending > 0
  /\ dg' = [dg EXCEPT
       !.pending = @ - 1,
       !.permissionStatus = "granted",
       !.transcriptionStatus = Initializing,
       !.isTranscribing = TRUE,
       !.sessions = Append(@, [stream |-> "live", connection |-> "CONNECTING",
                               recorder |-> "none"]),
       !.audioStreamRef = Len(dg.sessions) + 1,
       !.deepgramConnectionRef = Len(dg.sessions) + 1]
  /\ UNCHANGED <<bbcode, stack, returned, modal, hook, localStorage,
                 API_KEY, saves, isOpen, userPrompt, connection, events,
                 calls>>

(* A rejection that goes on to set up the transcription.                   *)
AfterDeniedGoingOn(d) ==
  [d EXCEPT !.pending = @ - 1,
            !.permissionStatus = "denied",
            !.transcriptionStatus = Initializing,
            !.deepgramError = Denied,
            !.isTranscribing = TRUE]

(* The state after getUserMedia rejected (lines 138-145, 169-170).         *)
AfterDenied(d) ==
  [d EXCEPT !.pending = @ - 1,
            !.permissionStatus = "denied",
            !.transcriptionStatus = Denied,
            !.deepgramError = Denied]

(* getUserMedia rejects. *)
PermissionDenied ==
  /\ dg.pending > 0
  /\ dg' = AfterDenied(dg)
  /\ UNCHANGED <<bbcode, stack, returned, modal, hook, localStorage,
                 API_KEY, saves, isOpen, userPrompt, connection, events,
                 calls>>

(* The Open handler of session k (lines 190-230).  Without a usable        *)
(* mimeType it cleans up.  Otherwise it creates the recorder on the stream *)
(* of its session and starts it; on a stream whose tracks were stopped     *)
(* start() either records nothing or throws, which leaves the recorder     *)
(* inactive.                                                               *)
AfterOpen(d, k, started) ==
  LET Recorder(e) ==
        IF ~e.mimeType
        THEN cleanupDeepgram([e EXCEPT !.deepgramError = NoMimeType,
                                       !.transcriptionStatus = NoMimeType])
        ELSE [e EXCEPT !.mediaRecorderRef = k,
                       !.sessions[k].recorder =
                          IF started THEN "recording" ELSE "inactive"]
  IN Recorder([d EXCEPT !.sessions[k].connection = "OPEN",
                        !.transcriptionStatus = Connected,
                        !.isRecording = TRUE,
                        !.isTranscribing = FALSE,
                        !.deepgramError = null])

DgOpen ==
  /\ \E k \in 1..Len(dg.sessions) :
       /\ dg.sessions[k].connection = "CONNECTING"
       /\ \E started \in BOOLEAN :
            /\ started \/ dg.sessions[k].stream = "stopped"
            /\ dg' = AfterOpen(dg, k, started)
  /\ UNCHANGED <<bbcode, stack, returned, modal, hook, localStorage,
                 API_KEY, saves, isOpen, userPrompt, connection, events,
                 calls>>

(* onstop of the recorder of session k (lines 218-227).                    *)
AfterRecorderStop(d, k) ==
  LET Finished(e) ==
        IF e.deepgramConnectionRef # 0
           /\ e.sessions[e.deepgramConnectionRef].connection = "OPEN"
        THEN e
        ELSE cleanupDeepgram(e)
  IN Finished([d EXCEPT !.sessions[k].recorder = "inactive",
                        !.isRecording = FALSE,
                        !.isTranscribing = TRUE,
                        !.transcriptionStatus = Processing])

RecorderStop ==
  /\ \E k \in 1..Len(dg.sessions) :
       /\ dg.sessions[k].recorder = "stopping"
       /\ dg' = AfterRecorderStop(dg, k)
  /\ UNCHANGED <<bbcode, stack, returned, modal, hook, localStorage,
                 API_KEY, saves, isOpen, userPrompt, connection, events,
                 calls>>

(* The Close handler of session k (lines 240-247).                         *)
AfterClose(d, k) ==
  [cleanupDeepgram([d EXCEPT !.sessions[k].connection = "CLOSED",
                             !.transcriptionStatus = Closed])
     EXCEPT !.deepgramConnectionRef = 0]

DgClose ==
  /\ \E k \in 1..Len(dg.sessions) :
       /\ dg.sessions[k].connection # "CLOSED"
       /\ dg' = AfterClose(dg, k)
  /\ UNCHANGED <<bbcode, stack, returned, modal, hook, localStorage,
                 API_KEY, saves, isOpen, userPrompt, connection, events,
                 calls>>

(* The Error handler of session k (lines 249-255).                         *)
DgError ==
  /\ \E k \in 1..Len(dg.sessions) : dg.sessions[k].connection # "CLOSED"
  /\ dg' = cleanupDeepgram([dg EXCEPT !.transcriptionStatus = ErrorStatus,
                                      !.deepgramError = ErrorMessage])
  /\ UNCHANGED <<bbcode, stack, returned, modal, hook, localStorage,
                 API_KEY, saves, isOpen, userPrompt, connection, events,
                 calls>>

(* The effect of the hook on a closed modal (lines 99-105).                *)
AfterModalClosed(d) ==
  [cleanupDeepgram(d) EXCEPT !.transcriptionStatus = null,
                             !.deepgramError = null,
                             !.permissionStatus = "idle"]

---------------------------------------------------------------------------
(* The transcription hook (useDeepgramTranscription) and the prompt of the *)
(* modal.  connection follows the live connection that toggleRecording     *)
(* creates: "connecting" until its Open event, "open" while recording,     *)
(* "finishing" once the recorder was stopped and finish() was sent,        *)
(* "draining" when the cleanup of a closing modal has reset the recording  *)
(* flags while the connection is not closed yet, "none" after its Close    *)
(* event.  events logs the Transcript events received and calls the        *)
(* arguments onTranscriptReceived was called with.                         *)

SPACE == Lit(<<" ">>)

(* The updater handleTranscriptReceived passes to setUserPrompt.           *)
handleTranscriptReceived(prev, transcript) ==
  (IF trim(prev) # <<>> THEN trim(prev) \o SPACE ELSE <<>>)
  \o transcript \o SPACE

(* A handler that hands on interim results too.                            *)
DeliveredInterim(data) == data.transcript # <<>>

(* The test of the Transcript handler: the event is handed on.             *)
Delivered(data) == data.transcript # <<>> /\ data.is_final

MaxEvents == 3

(* The transcripts an event can carry and the values of is_final.          *)
TranscriptData ==
  [transcript : {<<>>, SPACE, Lit(<<"a">>), Lit(<<" ", "b", " ">>)},
   is_final : BOOLEAN]

(* What the user can type into the prompt.                                 *)
PromptTexts == {<<>>, Lit(<<" ", "p", " ">>)}

(* The recording flags isRecording and isTranscribing are both false.      *)
Idle == connection \in {"none", "draining"}

(* The parent opens the modal. *)
OpenModal ==
  /\ ~isOpen
  /\ isOpen' = TRUE
  /\ UNCHANGED <<bbcode, stack, returned, dg, modal,
                 hook, localStorage, API_KEY,
                 saves, userPrompt, connection, events, calls>>

(* The Transcript handler of an open session (lines 232-238), with the     *)
(* prompt update of the modal's callback.                                  *)
DgTranscript ==
  /\ \E k \in 1..Len(dg.sessions) : dg.sessions[k].connection = "OPEN"
  /\ Len(events) < MaxTranscripts
  /\ \E data \in [transcript : {Lit(<<"a">>)}, is_final : BOOLEAN] :
       /\ events' = Append(events, data)
       /\ IF Delivered(data)
          THEN /\ calls' = Append(calls, trim(data.transcript))
               /\ userPrompt' =
                    handleTranscriptReceived(userPrompt, trim(data.transcript))
               /\ dg' = [dg EXCEPT !.transcriptionStatus = Received]
          ELSE UNCHANGED <<calls, userPrompt, dg>>
  /\ UNCHANGED <<bbcode, stack, returned, modal, hook, localStorage,
                 API_KEY, saves, isOpen, connection>>

(* The effect of the modal on being closed (GeminiApiKeySection.tsx,      *)
(* lines 244-252); a request in flight stays in flight.                    *)
AfterModalReset(m) ==
  [m EXCEPT !.aiResponse = <<>>, !.isLoading = FALSE, !.geminiError = null]

(* onClose, and the effects on isOpen of the modal and of the hook: the    *)
(* prompt and the response are reset, cleanupDeepgram finishes the         *)
(* connection and the hook's status, error and permission are reset.  A    *)
(* connection that got audio still reports on it; one that was only        *)
(* connecting gets none.                                                   *)
CloseModal ==
  /\ isOpen
  /\ isOpen' = FALSE
  /\ userPrompt' = <<>>
  /\ connection' = IF connection \in {"none", "connecting"}
                   THEN "none" ELSE "draining"
  /\ dg' = AfterModalClosed(dg)
  /\ modal' = AfterModalReset(modal)
  /\ UNCHANGED <<bbcode, stack, returned, hook, localStorage, API_KEY,
                 saves, events, calls>>

(* onChange of the prompt, which is disabled while recording or loading *)
SetUserPrompt ==
  /\ isOpen /\ Idle /\ ~modal.isLoading
  /\ \E v \in PromptTexts : userPrompt' = v
  /\ UNCHANGED <<bbcode, stack, returned, dg, modal,
                 hook, localStorage, API_KEY,
                 saves, isOpen, connection, events, calls>>

(* toggleRecording when not recording (the button is disabled while a     *)
(* request is loading): a new live connection with its handlers.           *)
StartRecording ==
  /\ isOpen /\ Idle /\ ~modal.isLoading
  /\ connection' = "connecting"
  /\ UNCHANGED <<bbcode, stack, returned, dg, modal,
                 hook, localStorage, API_KEY,
                 saves, isOpen, userPrompt, events, calls>>

(* The Open handler: the recorder starts. *)
ConnectionOpen ==
  /\ connection = "connecting"
  /\ connection' = "open"
  /\ UNCHANGED <<bbcode, stack, returned, dg, modal,
                 hook, localStorage, API_KEY,
                 saves, isOpen, userPrompt, events, calls>>

(* toggleRecording when recording: the recorder stops and its onstop       *)
(* finishes the connection.                                                *)
StopRecording ==
  /\ isOpen /\ connection = "open"
  /\ connection' = "finishing"
  /\ UNCHANGED <<bbcode, stack, returned, dg, modal,
                 hook, localStorage, API_KEY,
                 saves, isOpen, userPrompt, events, calls>>

(* The Transcript handler for the event data, with the prompt update of    *)
(* the callback it calls.                                                  *)
Transcript ==
  /\ connection \in {"open", "finishing", "draining"}
  /\ Len(events) < MaxEvents
  /\ \E data \in TranscriptData :
       /\ events' = Append(events, data)
       /\ IF Delivered(data)
          THEN /\ calls' = Append(calls, trim(data.transcript))
               /\ userPrompt' =
                    handleTranscriptReceived(userPrompt, trim(data.transcript))
          ELSE UNCHANGED <<calls, userPrompt>>
  /\ UNCHANGED <<bbcode, stack, returned, dg, modal,
                 hook, localStorage, API_KEY,
                 saves, isOpen, connection>>

(* The Close handler *)
ConnectionClose ==
  /\ connection # "none"
  /\ connection' = "none"
  /\ UNCHANGED <<bbcode, stack, returned, dg, modal,
                 hook, localStorage, API_KEY,
                 saves, isOpen, userPrompt, events, calls>>

TranscriptNext ==
  \/ OpenModal
  \/ CloseModal
  \/ SetUserPrompt
  \/ StartRecording
  \/ ConnectionOpen
  \/ StopRecording
  \/ Transcript
  \/ ConnectionClose

---------------------------------------------------------------------------
(* The request to the model (handleSubmitPrompt of AiInteractionModal).    *)
(* modal.inFlight counts the generateContent calls that have not settled.  *)

MaxRequests == 2

EmptyPrompt == "Prompt cannot be empty."
KeyNotSet == "Gemini API Key is not set. Please set your API key."
RequestFailed == "e.message"

(* response.text of a settled request *)
ResponseText == Lit(<<"[b]r[/b]">>)

(* isApiKeySet of useGeminiApiKey *)
isApiKeySet == API_KEY \/ hook.userApiKey # <<>>

(* The submit button is enabled.                                           *)
SubmitEnabled ==
  /\ isOpen
  /\ ~modal.isLoading
  /\ trim(userPrompt) # <<>>
  /\ Idle /\ ~dg.isRecording /\ ~dg.isTranscribing
  /\ isApiKeySet

(* handleSubmitPrompt up to its await (lines 260-279)                      *)
SubmitPrompt ==
  /\ SubmitEnabled
  /\ IF trim(userPrompt) = <<>>
     THEN /\ modal' = [modal EXCEPT !.geminiError = EmptyPrompt]
          /\ hook' = hook
     ELSE IF ~isApiKeySet
     THEN /\ modal' = [modal EXCEPT !.geminiError = KeyNotSet]
          /\ hook' = [hook EXCEPT !.showApiKeyInput = TRUE]
     ELSE /\ modal.inFlight < MaxRequests
          /\ modal' = [modal EXCEPT !.isLoading = TRUE, !.geminiError = null,
                                    !.aiResponse = <<>>, !.inFlight = @ + 1]
          /\ hook' = hook
  /\ UNCHANGED <<bbcode, stack, returned, dg, localStorage, API_KEY, saves,
                 isOpen, userPrompt, connection, events, calls>>

(* The state after a request settled with a response (lines 286, 291).     *)
AfterResponse(m) ==
  [m EXCEPT !.inFlight = @ - 1, !.aiResponse = ResponseText,
            !.isLoading = FALSE]

(* generateContent resolves. *)
GeminiResponds ==
  /\ modal.inFlight > 0
  /\ modal' = AfterResponse(modal)
  /\ UNCHANGED <<bbcode, stack, returned, dg, hook, localStorage, API_KEY,
                 saves, isOpen, userPrompt, connection, events, calls>>

(* generateContent rejects (lines 287-291). *)
GeminiFails ==
  /\ modal.inFlight > 0
  /\ modal' = [modal EXCEPT !.inFlight = @ - 1, !.geminiError = RequestFailed,
                            !.isLoading = FALSE]
  /\ UNCHANGED <<bbcode, stack, returned, dg, hook, localStorage, API_KEY,
                 saves, isOpen, userPrompt, connection, events, calls>>

(* The modal with its prompt, its recording and its request.               *)
ModalNext ==
  \/ OpenModal
  \/ CloseModal
  \/ SetUserPrompt
  \/ StartRecording
  \/ ConnectionOpen
  \/ StopRecording
  \/ Transcript
  \/ ConnectionClose
  \/ SubmitPrompt
  \/ GeminiResponds
  \/ GeminiFails

(* The components mounted and untouched: the values of their useState     *)
(* calls after the mount effects, nothing stored, no key in the            *)
(* environment, the modal closed.                                          *)
Untouched ==
  /\ hook = [userApiKey |-> <<>>, tempApiKey |-> <<>>,
             showApiKeyInput |-> TRUE, apiKeyError |-> null]
  /\ localStorage = <<>>
  /\ API_KEY = FALSE
  /\ saves = <<>>
  /\ isOpen = FALSE
  /\ userPrompt = <<>>
  /\ connection = "none"
  /\ events = <<>>
  /\ calls = <<>>
  /\ dg = DgMounted(TRUE, TRUE)
  /\ modal = ModalMounted

(* A top-level call parseBBCode(bbcode) for an input of the set I.         *)
Call(I) ==
  /\ bbcode \in I
  /\ stack = <<NewFrame(bbcode)>>
  /\ returned = <<>>
  /\ Untouched

(* The components mounted, no call of the parser in progress.             *)
TranscriptInit == NoCall /\ Untouched

TranscriptSpec == TranscriptInit /\ [][TranscriptNext]_vars

(* The record button and everything that can follow a click: the           *)
(* permission prompt answered, the events of a session's connection and    *)
(* recorder, the modal opened and closed in between.                       *)
RecorderNext ==
  \/ OpenModal
  \/ CloseModal
  \/ ToggleRecording
  \/ PermissionGranted
  \/ PermissionDenied
  \/ DgOpen
  \/ RecorderStop
  \/ DgTranscript
  \/ DgClose
  \/ DgError

(* The components mounted in a browser with or without getUserMedia and    *)
(* with or without an audio type MediaRecorder supports.                   *)
RecorderInit ==
  /\ NoCall
  /\ hook = [userApiKey |-> <<>>, tempApiKey |-> <<>>,
             showApiKeyInput |-> TRUE, apiKeyError |-> null]
  /\ localStorage = <<>>
  /\ API_KEY = FALSE
  /\ saves = <<>>
  /\ isOpen = FALSE
  /\ userPrompt = <<>>
  /\ connection = "none"
  /\ events = <<>>
  /\ calls = <<>>
  /\ dg \in {DgMounted(g, m) : g \in BOOLEAN, m \in BOOLEAN}
  /\ modal = ModalMounted

RecorderSpec == RecorderInit /\ [][RecorderNext]_vars

(* The same, with the stop event of a stopped recorder and the Close event *)
(* of a connection eventually delivered.                                   *)
RecorderFair ==
  RecorderSpec /\ WF_vars(RecorderStop) /\ WF_vars(DgClose)

(* The components mounted with a key in the environment, the modal closed. *)
ModalInit ==
  /\ NoCall
  /\ localStorage = <<>>
  /\ API_KEY = TRUE
  /\ hook = Mounted(localStorage, API_KEY)
  /\ saves = <<>>
  /\ isOpen = FALSE
  /\ userPrompt = <<>>
  /\ connection = "none"
  /\ events = <<>>
  /\ calls = <<>>
  /\ dg = DgMounted(TRUE, TRUE)
  /\ modal = ModalMounted

ModalSpec == ModalInit /\ [][ModalNext]_vars

Init == Call(Inputs)

Spec == Init /\ [][Next]_vars

TotalInit == Call(TotalInputs)

(* parseBBCode is synchronous: once called it runs on until it returns.    *)
(* This is weak fairness of Next, WF_vars(Next), with ENABLED <<Next>>_vars *)
(* written out: no action is enabled in a Done state, and CanStep below is *)
(* the disjunction of the actions' guards.                                 *)
KeepsRunning == []<>Done \/ []<><<Next>>_vars

TotalSpec == TotalInit /\ [][Next]_vars /\ KeepsRunning

NestInit == Call(NestInputs)

NestSpec == NestInit /\ [][Next]_vars

UnclosedInit == Call(UnclosedInputs)

UnclosedSpec == UnclosedInit /\ [][Next]_vars

SentinelInit == Call(SentinelInputs)

SentinelSpec == SentinelInit /\ [][Next]_vars

EscapeInit == Call(EscapeInputs)

EscapeSpec == EscapeInit /\ [][Next]_vars

RepeatInit == Call(RepeatInputs)

RepeatSpec == RepeatInit /\ [][Next]_vars

UrlInit == Call(UrlInputs)

UrlSpec == UrlInit /\ [][Next]_vars

ImgInit == Call(ImgInputs)

ImgSpec == ImgInit /\ [][Next]_vars

NestedMentionInit == Call(NestedMentionInputs)

NestedMentionSpec == NestedMentionInit /\ [][Next]_vars

RegionInit == Call(RegionInputs)

RegionSpec == RegionInit /\ [][Next]_vars

TargetInit == Call(TargetInputs)

TargetSpec == TargetInit /\ [][Next]_vars

PairInit == Call(PairInputs)

PairSpec == PairInit /\ [][Next]_vars

NearestInit == Call(NearestInputs)

NearestSpec == NearestInit /\ [][Next]_vars

SameInit == Call(SameInputs)

SameSpec == SameInit /\ [][Next]_vars /\ KeepsRunning

---------------------------------------------------------------------------
(* Claims *)

(* The tokens the rule table generates (not the literal-region wrappers,   *)
(* the mention span or the line break).                                    *)
RuleTags ==
  (LtFirstTags \cup GtFirstTags)
  \ {PreCodeOpen, CodeOpen, PreOpen, "</code>", "</pre>", MentionOpen, Br,
     "<", ">"}

IsRuleTag(tok) == tok.e = 0 /\ tok.t \in RuleTags

(* The indices strictly inside the rendered literal region that opens at i *)
RegionBody(s, i) ==
  LET close == IF s[i].t = PreOpen THEN "</pre>" ELSE "</code>"
      J == {j \in (i + 1)..Len(s) : IsExact(s, j, close)}
  IN IF J = {} THEN (i + 1)..Len(s) ELSE (i + 1)..(Min(J) - 1)

(* C1: literal-region isolation.  In the returned string no element that a *)
(* rule of the rule table generates lies inside a rendered [code] or [pre] *)
(* region: tag text placed in a literal region stays literal text.         *)
C1_LiteralIsolation ==
  Done =>
    \A i \in 1..Len(Output) :
      (Output[i].e = 0 /\ Output[i].t \in {CodeOpen, PreOpen}) =>
        \A j \in RegionBody(Output, i) : ~IsRuleTag(Output[j])

(* C2: escaping contract.  None of the five HTML-significant characters    *)
(* of the input reaches the returned string unescaped: every "<" and ">"   *)
(* of the output belongs to an element template.                           *)
C2_Escaped ==
  Done =>
    \A i \in 1..Len(Output) :
      ~(Output[i].e = 0 /\ Output[i].t \in {"&", "<", ">", "\"", "'"})

(* C3: no sentinel leak.  The returned string contains no occurrence of   *)
(* the list-item sentinel %%LIST_ITEM_PLACEHOLDER%%, whatever lists,       *)
(* markers, sentinels or sentinel fragments the input held.                *)
C3_NoSentinelLeak ==
  Done => \A i \in 1..Len(Output) : ~ExactSentinelAt(Output, i)

(* C3 happens: an input that itself spells the sentinel has been turned    *)
(* into a list item.                                                       *)
C3_Witness ==
  /\ Done
  /\ \E i \in 1..Len(bbcode) : ExactSentinelAt(bbcode, i)
  /\ \E j \in 1..Len(Output) : IsExact(Output, j, LiOpen)

(* An invocation is inside the rule loop.                                  *)
InLoop(f) == f.pc \in {"rules", "call"}

PassesBounded ==
  \A k \in 1..Len(stack) :
    /\ stack[k].pass <= 15
    /\ InLoop(stack[k]) => stack[k].pass < 15

DepthBounded == Len(stack) <= 1 + Len(bbcode)

(* The guard of some action holds: by pc "rules" either ApplyRule or       *)
(* EndPass, by pc "done" Return unless the frame is the outermost.         *)
CanStep ==
  \/ Top.pc \in {"literal", "rules", "strip", "mention", "breaks", "sole"}
  \/ Top.pc = "done" /\ Len(stack) > 1

Nth(S, k) == CHOOSE i \in S : Cardinality({j \in S : j <= i}) = k

(* The contents of the item elements of s, in order.                       *)
ItemsOf(s) ==
  LET L == {i \in 1..Len(s) : IsExact(s, i, LiOpen)}
  IN [k \in 1..Cardinality(L) |->
        LET i == Nth(L, k)
            E == {j \in (i + 1)..Len(s) : IsExact(s, j, "</li>")}
        IN SubSeq(s, i + 1, IF E = {} THEN Len(s) ELSE Min(E) - 1)]

(* The item bodies of a list input: the text after each marker, up to the  *)
(* next marker or the close tag.                                           *)
BodiesOf(s) ==
  LET M == {i \in 1..Len(s) : TagAt(s, i, "[*")}
  IN [k \in 1..Cardinality(M) |->
        LET i == Nth(M, k)
        IN SubSeq(s, i + 2,
                  (IF k = Cardinality(M) THEN Len(s) - 1 ELSE Nth(M, k + 1)) - 1)]

(* What an item body is to become: trimmed, its markup rendered.           *)
RenderedItem(b) ==
  IF trim(b) = BoldX THEN Lit(<<StrongOpen, "x", "</strong>">>) ELSE trim(b)

(* C5: list round-trip.  A [list] or [list=1] whose body holds k >= 1 item *)
(* markers, each followed by non-blank content, yields exactly one list    *)
(* element (ul resp. ol) with exactly k item elements, in input order,     *)
(* each holding its item's trimmed, transformed content, whether or not    *)
(* white space precedes the first marker.                                  *)
C5_ListRoundTrip ==
  (Done /\ bbcode \in ListInputs) =>
    /\ Cardinality({i \in 1..Len(Output) :
                      IsExact(Output, i, UlOpen) \/ IsExact(Output, i, OlOpen)}) = 1
    /\ IsExact(Output, 1, IF TagAt(bbcode, 1, "[list") THEN UlOpen ELSE OlOpen)
    /\ ItemsOf(Output)
         = [k \in 1..Len(BodiesOf(bbcode)) |-> RenderedItem(BodiesOf(bbcode)[k])]

(* C6: size clamping.  [size=N]body[/size], N a decimal numeral of any     *)
(* number of digits, yields a font-size declaration of exactly             *)
(* min(max(N, 50), 300) percent around the body; an out-of-range N is      *)
(* clamped, not left as literal tag text.                                  *)
C6_SizeClamped ==
  (Done /\ bbcode \in SizeInputs) =>
    LET N == parseInt(SubSeq(bbcode, 2, Len(bbcode) - 4))
    IN Output = Lit(<<SizeOpen, ToString(Min({Max({N, 50}), 300})),
                      SizeAttrEnd, "x", "</span>">>)

(* The element of a paired tag, as the tokens that open and close it.      *)
ElementOpen(r) ==
  CASE r = "b" -> Lit(<<StrongOpen>>) [] r = "i" -> Lit(<<EmOpen>>)
    [] r = "u" -> Lit(<<UnderlineOpen>>) [] r = "s" -> Lit(<<StrikeOpen>>)
    [] r = "sub" -> Lit(<<"<sub>">>) [] r = "sup" -> Lit(<<"<sup>">>)
    [] r = "quote" -> Lit(<<QuoteOpen, QuoteBodyOpen>>)

ElementClose(r) ==
  CASE r = "b" -> Lit(<<"</strong>">>) [] r = "i" -> Lit(<<"</em>">>)
    [] r \in {"u", "s"} -> Lit(<<"</span>">>)
    [] r = "sub" -> Lit(<<"</sub>">>) [] r = "sup" -> Lit(<<"</sup>">>)
    [] r = "quote" -> Lit(<<"</div>", "</blockquote>">>)

(* The tag that opens at index i of a nesting.                             *)
NestTagAt(s, i) == CHOOSE r \in NestTags : IsExact(s, i, PlainHead(r))

(* The number of open tags a nesting starts with.                          *)
NestDepth(s) ==
  Max({n \in 0..(Len(s) \div 4) :
         \A k \in 1..n : \E r \in NestTags : TagAt(s, 2 * k - 1, PlainHead(r))})

(* C7: nested resolution.  A nesting [A][B]..text..[/B][/A] of pairwise    *)
(* distinct paired tags yields, from the single top-level call, the        *)
(* element of each inner tag nested in the element of the tag around it,   *)
(* all wrapping the unchanged text, and no bracket tag text is left over.  *)
C7_NestedResolution ==
  Done =>
    LET n == NestDepth(bbcode)
    IN Output =
         Flatten([k \in 1..n |-> ElementOpen(NestTagAt(bbcode, 2 * k - 1))])
         \o SubSeq(bbcode, 2 * n + 1, Len(bbcode) - 2 * n)
         \o Flatten([k \in 1..n |->
                ElementClose(NestTagAt(bbcode, 2 * (n + 1 - k) - 1))])

(* C7 happens: [i][b]..[/b][/i] has become a bold element in an emphasis   *)
(* element.                                                                *)
C7_Witness ==
  /\ Done
  /\ TagAt(bbcode, 1, "[i") /\ TagAt(bbcode, 3, "[b")
  /\ IsExact(Output, 1, EmOpen) /\ IsExact(Output, 2, StrongOpen)

(* The open tags with head h that no close tag with head c follows.        *)
Unclosed(s, h, c) ==
  {i \in 1..Len(s) : TagAt(s, i, h) /\ NextTag(s, i + 2, c) = 0}

(* The tag at i lies in the parameter of a tag whose head precedes it: its *)
(* "]" is the first after a head that takes a free-text parameter.         *)
InParameter(s, i) ==
  \E p \in 1..(i - 1) :
    /\ s[p].e = 0 /\ s[p].t \in {"[url=", "[spoiler=", "[quote="}
    /\ \A q \in (p + 1)..(i - 1) : ~IsExact(s, q, "]")

(* The number of tags with head h in s.                                    *)
TagCount(s, h) == Cardinality({i \in 1..Len(s) : TagAt(s, i, h)})

(* For one paired kind and the set U of its open tags in question: each is *)
(* still in the output as literal text, and when U is every open tag of    *)
(* the kind, the output holds no element of the kind.                      *)
Degrades(U, h, elements) ==
  U # {} =>
    /\ TagCount(Output, h) >= Cardinality(U)
    /\ Cardinality(U) = TagCount(bbcode, h) =>
         \A j \in 1..Len(Output) :
           ~(Output[j].e = 0 /\ Output[j].t \in elements)

(* C8 as stated: graceful degradation.  An open tag of a paired kind that  *)
(* has no later close tag of its kind anywhere in the input is matched by  *)
(* no rule: the output holds no element for it and its text stays literal. *)
C8_AnyUnclosedTag ==
  Done =>
    /\ Degrades(Unclosed(bbcode, "[b", "[/b"), "[b", {StrongOpen})
    /\ Degrades(Unclosed(bbcode, "[i", "[/i"), "[i", {EmOpen})
    /\ Degrades(Unclosed(bbcode, "[code", "[/code"), "[code",
                {PreCodeOpen, CodeOpen})

(* C8 amended: graceful degradation of an open tag that has no later close *)
(* tag of its kind and does not lie in the parameter of another tag: the   *)
(* call returns, the output holds no element for it and its text stays     *)
(* literal.                                                                *)
C8_GracefulDegradation ==
  Done =>
    LET Free(h, c) == {i \in Unclosed(bbcode, h, c) : ~InParameter(bbcode, i)}
    IN /\ Degrades(Free("[b", "[/b"), "[b", {StrongOpen})
       /\ Degrades(Free("[i", "[/i"), "[i", {EmOpen})
       /\ Degrades(Free("[code", "[/code"), "[code", {PreCodeOpen, CodeOpen})

(* C8 happens: an input that starts with an unclosed [b] and goes on has   *)
(* been returned with the tag still in front.                              *)
C8_Witness ==
  /\ Done
  /\ 1 \in Unclosed(bbcode, "[b", "[/b") /\ Len(bbcode) > 2
  /\ TagAt(Output, 1, "[b")

(* An input of plain text only: no tag, no newline.                        *)
PlainText(s) ==
  \A i \in 1..Len(s) : s[i].e = 0 /\ s[i].t \in {"@", "ab", " ", ">", "x"}

(* A bare @name at a word boundary: at the start or after white space.     *)
BareMention(s, i) ==
  /\ IsExact(s, i, "@") /\ IsExact(s, i + 1, "ab")
  /\ (i = 1 \/ IsWs(s[i - 1]))

(* The indices of the "@" characters of s.                                 *)
Ats(s) == {i \in 1..Len(s) : IsExact(s, i, "@")}

(* The "@" at index i of plain text s is, in the output, the same one in   *)
(* order; it is wrapped when the mention span opens directly before it.    *)
Wrapped(s, i) ==
  LET k == Cardinality({a \in Ats(s) : a <= i})
  IN /\ Cardinality(Ats(Output)) = Cardinality(Ats(s))
     /\ IsExact(Output, Nth(Ats(Output), k) - 1, MentionOpen)

(* The token at j lies in an anchor element: in its open tag (the href     *)
(* value) or in its content.                                               *)
InAnchor(s, j) ==
  \E a \in 1..(j - 1) :
    /\ s[a].e = 0 /\ s[a].t \in {AnchorOpen, AnchorAttrs}
    /\ \A q \in (a + 1)..(j - 1) : ~IsExact(s, q, "</a>")

(* C9: mention boundary.  Every bare @name at a word boundary in plain     *)
(* text outside any tag is wrapped in a mention span, whatever plain text  *)
(* follows it; and no mention span lies inside an anchor element, be it in *)
(* the link target or in the link text.                                    *)
C9_MentionBoundary ==
  Done =>
    /\ PlainText(bbcode) =>
         \A i \in 1..Len(bbcode) : BareMention(bbcode, i) => Wrapped(bbcode, i)
    /\ \A j \in 1..Len(Output) :
         IsExact(Output, j, MentionOpen) => ~InAnchor(Output, j)

(* C10: break suppression.  In the returned string no <br /> is directly   *)
(* followed by an opening block-level tag and none directly preceded by a  *)
(* closing block-level tag, however many newlines the input had there.     *)
C10_BreakSuppression ==
  Done =>
    \A i \in 1..Len(Output) :
      IsBr(Output, i) =>
        ~IsOpenBlock(Output, i + 1) /\ ~IsCloseBlock(Output, i - 1)


(* C11: single escaping.  In the returned string no character of the input *)
(* that escapeHtml rewrites has been escaped more than once: an input "&"  *)
(* never appears as &amp;amp; and an input "<" never as &amp;lt;.          *)
C11_SingleEscaping ==
  Done =>
    \A i \in 1..Len(Output) :
      Output[i].t \in {"&", "<", ">", "\"", "'"} => Output[i].e <= 1

(* Every regex of every call in progress has lastIndex 0 whenever the next *)
(* test or replace can start.                                              *)
LastIndexClear ==
  \A i \in 1..Len(stack) : \A r \in 1..Len(rules) : stack[i].lastIndex[r] = 0

(* The calls that have returned so far, the recursive ones included, gave  *)
(* equal results for equal parameters.                                     *)
Deterministic ==
  \A i, j \in 1..Len(returned) :
    returned[i].bbcode = returned[j].bbcode =>
      returned[i].html = returned[j].html

HrefValue(s, i) ==
  LET J == {j \in (i + 1)..Len(s) : IsExact(s, j, AnchorAttrs)}
  IN IF J = {} THEN (i + 1)..Len(s) ELSE (i + 1)..(Min(J) - 1)

(* C13: URL target integrity.  In the returned string the href value of    *)
(* every anchor holds no element markup: no rule, pass or post-processing  *)
(* step has put a generated tag inside the attribute.                      *)
C13_HrefIntact ==
  Done =>
    \A i \in 1..Len(Output) :
      IsExact(Output, i, AnchorOpen) =>
        \A j \in HrefValue(Output, i) :
          ~(Output[j].e = 0 /\ Output[j].t \in LtFirstTags \cup GtFirstTags)

(* The source of the input [img]source[/img], trimmed.                     *)
TrimmedSource == trim(SubSeq(bbcode, 3, Len(bbcode) - 2))

(* A source that is empty or a bare scheme.                                *)
Rejected(src) ==
  src = <<>> \/ src \in {Lit(<<"http://">>), Lit(<<"HTTP://">>),
                         Lit(<<"https://">>)}

(* C14: invalid image source.  [img]source[/img] returns the placeholder   *)
(* [Invalid Image] when the trimmed source is empty or a bare http:// or   *)
(* https:// in any letter case, and otherwise exactly one img element      *)
(* whose src value is the escaped trimmed source.                          *)
C14_ImageSource ==
  Done =>
    Output = IF Rejected(TrimmedSource) THEN Lit(<<"[Invalid Image", "]">>)
             ELSE Lit(<<ImgOpen>>) \o escapeHtml(TrimmedSource)
                  \o Lit(<<ImgClass>>)

(* The loop of call f ends (g is the call after the pass) when the pass    *)
(* left the string unchanged.                                              *)
StopsWhenUnchanged(f, g) == f.html = f.currentHtml => g.pc = "strip"

(* The same for every pass but the first, ...                              *)
StopsWhenUnchangedAfterFirst(f, g) ==
  (f.html = f.currentHtml /\ f.pass > 0) => g.pc = "strip"

(* ... which is followed by a second pass whether or not it changed the    *)
(* string.                                                                 *)
SecondPassAlways(f, g) ==
  f.pass = 0 => (g.pc = "rules" /\ g.pass = 1 /\ g.rule = 1)

(* A pass that changed the string is followed by another one below the     *)
(* ceiling.                                                                *)
GoesOnWhenChanged(f, g) ==
  (f.html # f.currentHtml /\ f.pass + 1 < 15) =>
    (g.pc = "rules" /\ g.pass = f.pass + 1 /\ g.rule = 1)

(* The fifteenth pass ends the loop with the string it produced, changed   *)
(* or not.                                                                 *)
CeilingReturns(f, g) ==
  f.pass = 14 => (g.pc = "strip" /\ g.html = f.html)

(* C15 as stated: at most 15 passes, and the loop ends after the first     *)
(* pass that leaves the string unchanged, the very first pass included.    *)
C15_StopsAtFirstUnchangedPass ==
  /\ []PassesBounded
  /\ [][EndPass => /\ StopsWhenUnchanged(Top, Top')
                   /\ GoesOnWhenChanged(Top, Top')
                   /\ CeilingReturns(Top, Top')]_vars

(* C15: convergence driver.  Each call runs at most 15 passes over the     *)
(* rule table and always at least two; from the second pass on the loop    *)
(* ends after the first pass that leaves the string unchanged, and a       *)
(* fifteenth pass ends it with the current string.                         *)
C15_Convergence ==
  /\ []PassesBounded
  /\ [][EndPass => /\ StopsWhenUnchangedAfterFirst(Top, Top')
                   /\ SecondPassAlways(Top, Top')
                   /\ GoesOnWhenChanged(Top, Top')
                   /\ CeilingReturns(Top, Top')]_vars

(* A call has returned that stopped on an unchanged pass after more than   *)
(* two passes and below the ceiling.                                       *)
C15_Witness == Done /\ stack[1].pass > 1 /\ stack[1].pass < 15

(* The breaks that are the only content between an opening and a closing   *)
(* block-level tag.                                                        *)
SoleBreaks(s) ==
  {i \in 1..Len(s) :
     IsBr(s, i) /\ IsOpenBlock(s, i - 1) /\ IsCloseBlock(s, i + 1)}

(* C19: sole-break collapse.  The last post-processing step removes        *)
(* exactly the breaks that are the only content between an opening and a   *)
(* closing block-level tag and keeps both tags, each once and in place.    *)
C19_SoleBreakCollapse ==
  [][SoleBreak =>
       stack'[Len(stack)].html = Remove(Top.html, SoleBreaks(Top.html))]_vars

(* The number of mention spans opened in s.                                *)
MentionSpans(s) == Cardinality({i \in 1..Len(s) : IsExact(s, i, MentionOpen)})

(* C20: the post-processor runs once.  Mention linking and the newline     *)
(* conversion with its cleanup run in the top-level call only, never in a  *)
(* call made for a tag body, and the @name of the input, however deeply    *)
(* nested in paired tags, is wrapped in exactly one mention span.          *)
C20_PostProcessOnce ==
  /\ \A k \in 2..Len(stack) : stack[k].pc \notin {"mention", "breaks", "sole"}
  /\ Done => MentionSpans(Output) = 1

(* C16: API-key saved callback.  For every click of Save, onApiKeySaved    *)
(* was called if and only if that click stored the key.                    *)
C16_SavedCallback ==
  \A i \in 1..Len(saves) : saves[i].notified = saves[i].saved

(* A key that is empty or holds only whitespace.                           *)
BlankKey(k) == \A i \in 1..Len(k) : k[i].t \in {" ", "\n"}

(* A save of a blank key sets the error and changes nothing else; any      *)
(* other save stores the key as typed, takes it as the user key, clears    *)
(* the error and hides the input.                                          *)
SaveEffect ==
  IF BlankKey(hook.tempApiKey)
  THEN /\ hook'.apiKeyError # null
       /\ localStorage' = localStorage
       /\ hook'.userApiKey = hook.userApiKey
       /\ hook'.showApiKeyInput = hook.showApiKeyInput
  ELSE /\ localStorage' = hook.tempApiKey
       /\ hook'.userApiKey = hook.tempApiKey
       /\ hook'.apiKeyError = null
       /\ hook'.showApiKeyInput = FALSE

RECURSIVE FinalTexts(_)
FinalTexts(log) ==
  IF log = <<>> THEN <<>>
  ELSE LET data == log[Len(log)]
           before == FinalTexts(SubSeq(log, 1, Len(log) - 1))
       IN IF data.is_final /\ Len(data.transcript) > 0
          THEN Append(before, trim(data.transcript))
          ELSE before

(* a is the start of b. *)
StartOf(a, b) == Len(a) <= Len(b) /\ SubSeq(b, 1, Len(a)) = a

(* a is the end of b. *)
EndOf(a, b) ==
  Len(a) <= Len(b) /\ SubSeq(b, Len(b) - Len(a) + 1, Len(b)) = a

(* A delivery puts the transcript at the end of the prompt, after a space, *)
(* and keeps the text the prompt had.                                      *)
Appends ==
  calls' # calls =>
    /\ StartOf(trim(userPrompt), userPrompt')
    /\ EndOf(calls'[Len(calls')] \o SPACE, userPrompt')
    /\ Len(userPrompt') > Len(trim(userPrompt)) + Len(calls'[Len(calls')])
         \/ trim(userPrompt) = <<>>

(* C18: transcript delivery.  onTranscriptReceived has been called once    *)
(* for each final Transcript event with text, in order, with the trimmed   *)
(* transcript, and for no other event; each call appends its transcript to *)
(* the prompt and keeps the text before it.                                *)
C18_TranscriptDelivery ==
  /\ [](calls = FinalTexts(events))
  /\ [][Appends]_vars

(* Two transcripts were delivered into a typed prompt, an interim one was  *)
(* not.                                                                    *)
C18_Witness ==
  /\ Len(calls) = 2
  /\ calls[1] # calls[2]
  /\ \E i \in 1..Len(events) : ~events[i].is_final /\ events[i].transcript # <<>>
  /\ StartOf(Lit(<<"p", " ">>), userPrompt)
  /\ EndOf(calls[1] \o SPACE \o calls[2] \o SPACE, userPrompt)

(* sub occurs in s as a run of adjacent tokens.                            *)
Contains(sub, s) ==
  \E k \in 0..(Len(s) - Len(sub)) : SubSeq(s, k + 1, k + Len(sub)) = sub

(* The block the first literal region of the source text s is rendered     *)
(* as: its content, trimmed and escaped, inside the wrapper of its tag.    *)
RenderedRegion(s) ==
  LET code == NextTag(s, 1, "[code")
      i == IF code # 0 THEN code ELSE NextTag(s, 1, "[pre")
      j == NextTag(s, i + 2, IF code # 0 THEN "[/code" ELSE "[/pre")
      Block(content) ==
        IF code # 0
        THEN Lit(<<PreCodeOpen, CodeOpen>>) \o content
             \o Lit(<<"</code>", "</pre>">>)
        ELSE Lit(<<PreOpen>>) \o content \o Lit(<<"</pre>">>)
  IN Block(escapeHtml(trim(SubSeq(s, i + 2, j - 1))))

(* C21: literal-region frame.  The returned string holds the rendered      *)
(* block of the [code] or [pre] region of the input unchanged: its content *)
(* trimmed and escaped once, with the authored whitespace and newlines,    *)
(* inside the region's wrapper.                                            *)
C21_LiteralFrame ==
  Done => Contains(RenderedRegion(bbcode), Output)

(* The parameter T and the body of a source text [url=T]body[/url] or      *)
(* [url]body[/url].                                                        *)
UrlParam(s) ==
  IF s[1].t = "[url=" THEN SubSeq(s, 2, NextTok(s, 2, "]") - 1) ELSE <<>>

UrlBody(s) == SubSeq(s, Len(UrlParam(s)) + 3, Len(s) - 2)

(* A word of letters or digits.                                            *)
IsSchemeWord(tok) == WordLen(tok) > 0

(* The target starts with scheme://, //, /, # or mailto:.  A scheme is a   *)
(* letter followed by letters and digits (the tokens of the targets hold   *)
(* no other character a scheme can have).                                  *)
StartsResolved(target) ==
  LET n == Max({k \in 0..Len(target) : \A j \in 1..k : IsSchemeWord(target[j])})
  IN \/ \E str \in {"//", "/", "#", "mailto:"} : IsExact(target, 1, str)
     \/ \E str \in {"http://", "HTTP://", "s3://"} : IsExact(target, n + 1, str)
     \/ /\ \E str \in {"mailto:", "MAILTO:"} : IsExact(target, n + 1, str)
        /\ IsExact(target, n + 2, "//")

(* The href and the link text the source text s is to give: the target is  *)
(* the trimmed parameter, or the trimmed body when there is none.          *)
ResolvedLink(s) ==
  LET Link(target, text) ==
        [href |-> IF StartsResolved(target) THEN target
                  ELSE Lit(<<"http://">>) \o target,
         text |-> text]
  IN IF UrlParam(s) # <<>> THEN Link(trim(UrlParam(s)), UrlBody(s))
     ELSE Link(trim(UrlBody(s)), trim(UrlBody(s)))

(* The anchor with the characters of its href escaped for the attribute.   *)
Anchor(link) ==
  Lit(<<AnchorOpen>>) \o escapeHtml(link.href) \o Lit(<<AnchorAttrs>>)
  \o link.text \o Lit(<<"</a>">>)

(* C22: URL target resolution.  The link of [url=T]body[/url] with         *)
(* non-empty T has the trimmed T as target and the body as text; without T *)
(* the trimmed body is target and text.  The href is the target itself     *)
(* when it starts with scheme://, //, /, # or mailto: and http:// plus the *)
(* target otherwise; the text carries no prepended http://.                *)
C22_UrlTarget ==
  Done => Output = Anchor(ResolvedLink(bbcode))

(* The open tags of literal regions in the source text s, and the close    *)
(* tag of the same kind nearest after the open tag at i.                   *)
RegionOpens(s) ==
  {i \in 1..Len(s) : TagAt(s, i, "[code") \/ TagAt(s, i, "[pre")}

NearestClose(s, i) ==
  NextTag(s, i + 2, IF TagAt(s, i, "[code") THEN "[/code" ELSE "[/pre")

(* The wrapper of the kind of region that opens at i around content,       *)
(* trimmed and escaped.                                                    *)
BlockOf(s, i, content) ==
  IF TagAt(s, i, "[code")
  THEN Lit(<<PreCodeOpen, CodeOpen>>) \o escapeHtml(trim(content))
       \o Lit(<<"</code>", "</pre>">>)
  ELSE Lit(<<PreOpen>>) \o escapeHtml(trim(content)) \o Lit(<<"</pre>">>)

(* The number of tokens str in s.                                          *)
Count(s, str) == Cardinality({i \in 1..Len(s) : IsExact(s, i, str)})

(* C23 as stated: greedy literal-region match.  The returned string holds  *)
(* one block for the text from the first open tag to the last close tag    *)
(* of the input.                                                           *)
C23_GreedyRegion ==
  Done =>
    LET first == Min(RegionOpens(bbcode))
        last == Max({j \in 1..Len(bbcode) :
                       TagAt(bbcode, j, "[/code") \/ TagAt(bbcode, j, "[/pre")})
    IN Contains(BlockOf(bbcode, first, SubSeq(bbcode, first + 2, last - 1)),
                Output)

(* C23: nearest-close literal regions.  Every [code] or [pre] open tag of  *)
(* the input is paired with the nearest close tag after it: the returned   *)
(* string holds one block per pair, each around the text of its own pair,  *)
(* and the markup between two pairs is rendered as markup.                 *)
C23_NearestRegion ==
  Done =>
    /\ \A i \in RegionOpens(bbcode) :
         Contains(BlockOf(bbcode, i,
                          SubSeq(bbcode, i + 2, NearestClose(bbcode, i) - 1)),
                  Output)
    /\ Count(Output, PreCodeOpen) + Count(Output, PreOpen)
         = Cardinality(RegionOpens(bbcode))
    /\ Count(Output, StrongOpen) = Count(bbcode, "[b")
    /\ \A k \in 1..Len(Output) : Output[k].t \notin {"[code", "[/code", "[pre", "[/pre", "[b", "[/b"}

(* Two regions with marked-up text between them were rendered.             *)
C23_Witness ==
  /\ Done
  /\ Cardinality(RegionOpens(bbcode)) = 2
  /\ Count(bbcode, "[b") = 1
  /\ Count(Output, "</pre>") = 2
  /\ Count(Output, StrongOpen) = 1

(* The rules that pair an open tag with a close tag.                       *)
PairedRules ==
  {rules[k] : k \in 1..Len(rules)} \ {"hr", "list_item_placeholder_internal"}

(* s holds a close tag of rule r.                                          *)
HasClose(r, s) == \E j \in 1..Len(s) : TagAt(s, j, CloseHead(r))

(* The matches ms of rule r in html end in a close tag of r and have no    *)
(* close tag of r in their bodies; when html is x, an open tag of r and y  *)
(* between an open and a close tag of r, then a word and a close tag, the  *)
(* first body is x, the open tag, y.                                       *)
NearestMatches(r, html, ms) ==
  /\ \A k \in 1..Len(ms) :
       /\ TagAt(html, ms[k].to - 1, CloseHead(r))
       /\ ~HasClose(r, ms[k].body)
  /\ \A open \in {SubSeq(html, 1, n) : n \in {k \in 2..5 : k <= Len(html)}} :
       html = DoubleNest(open, Tag(CloseHead(r)))
         => ms[1].body = Lit(<<"x">>) \o open \o Lit(<<"y">>)

(* C24: nearest-close pairing.  Every match of a paired rule runs from an  *)
(* open tag to the nearest close tag of the same name after it: no body    *)
(* holds such a close tag, and in [t]x[t]y[/t]one[/t] the first match has  *)
(* the body x[t]y.                                                         *)
C24_NearestClose ==
  [][ApplyRule =>
       LET Applied(r) ==
             r \in PairedRules
               => NearestMatches(r, Top.html, Matches(r, Top.html, 1))
       IN Applied(rules[NextRule(Top.rule, Top.html, Top.lastIndex)])]_vars

(* The b rule has matched [b]x[b]y[/b]one[/b] and its callback has called  *)
(* parseBBCode with x[b]y.                                                 *)
C24_Witness ==
  /\ bbcode = DoubleNest(Tag("[b"), Tag("[/b"))
  /\ Len(stack) = 2
  /\ stack[1].pass = 0
  /\ Top.pc = "literal"
  /\ Top.bbcode = Lit(<<"x">>) \o Tag("[b") \o Lit(<<"y">>)

(* The kind and the depth of a nesting of one inline tag.                  *)
SameKind(s) == CHOOSE r \in InlineKinds : IsExact(s, 1, PlainHead(r))

SameDepth(s) == (Len(s) - 1) \div 4

(* The nesting of kind r and depth d with its outer n levels resolved.     *)
Resolved(r, d, n) ==
  Repeat(ElementOpen(r), n) \o Repeat(Tag(PlainHead(r)), d - n)
  \o Lit(<<"x">>)
  \o Repeat(ElementClose(r), n) \o Repeat(Tag(CloseHead(r)), d - n)

(* The top-level call ends a pass. *)
TopLevelPass == EndPass /\ Len(stack) = 1

(* C25: same-name nesting and the pass ceiling.  For d open tags of one    *)
(* inline kind, a word and d close tags, the top-level call has resolved   *)
(* one more level at the end of each pass until none is left; it returns,  *)
(* with d nested elements and no tag text when d <= 15, and with 15        *)
(* elements around the tag text of the other levels when d > 15.           *)
C25_PassCeiling ==
  /\ <>Done
  /\ [][TopLevelPass =>
          Top.html = Resolved(SameKind(bbcode), SameDepth(bbcode),
                              Min({SameDepth(bbcode), Top.pass + 1}))]_vars
  /\ [](Done =>
          Output = Resolved(SameKind(bbcode), SameDepth(bbcode),
                            Min({SameDepth(bbcode), 15})))

(* A nesting of depth 16 has come back with one level of tag text left.    *)
C25_Witness ==
  /\ Done
  /\ SameDepth(bbcode) = 16
  /\ Count(Output, "[b") = 1
  /\ Count(Output, StrongOpen) = 15

---------------------------------------------------------------------------
(* The hook holds the microphone: audioStreamRef points to a stream whose  *)
(* tracks were not stopped.                                                *)
StreamHeld ==
  /\ dg.audioStreamRef # 0
  /\ dg.sessions[dg.audioStreamRef].stream = "live"

(* C26: in every reachable state of the transcription hook, isRecording    *)
(* implies that a connection is referenced and that the microphone stream  *)
(* is still held; an Open event that arrives after cleanupDeepgram has run *)
(* therefore does not set isRecording.                                     *)
C26_RecordingHoldsResources ==
  dg.isRecording => dg.deepgramConnectionRef # 0 /\ StreamHeld


(* The values the hook's isOpen effect leaves behind.                      *)
HookReset ==
  /\ ~dg.isRecording
  /\ ~dg.isTranscribing
  /\ dg.transcriptionStatus = null
  /\ dg.deepgramError = null
  /\ dg.permissionStatus = "idle"

(* An event of a session's recorder or connection is delivered.            *)
SessionEvent == RecorderStop \/ DgOpen \/ DgClose \/ DgError \/ DgTranscript

(* C27: while the modal is closed, isRecording and isTranscribing are      *)
(* false, transcriptionStatus and deepgramError are null and               *)
(* permissionStatus is idle, whatever recorder or connection events        *)
(* (onstop, Open, Close, Error, Transcript) are delivered after the close: *)
(* such an event on a closed modal leaves the reset values in place.       *)
C27_ClosedStaysIdle ==
  [][~isOpen /\ HookReset /\ SessionEvent => HookReset']_vars


(* The idle state of the hook: not recording, not transcribing, no         *)
(* connection and no stream referenced.                                    *)
HookIdle ==
  /\ ~dg.isRecording
  /\ ~dg.isTranscribing
  /\ dg.deepgramConnectionRef = 0
  /\ dg.audioStreamRef = 0

(* A recording is active: the referenced recorder records.                 *)
ActiveRecording ==
  /\ dg.isRecording
  /\ dg.mediaRecorderRef # 0
  /\ dg.sessions[dg.mediaRecorderRef].recorder = "recording"

(* The hook waits for the end of the stopped recording of session k: k is  *)
(* the referenced connection, still open, and its recorder was stopped.    *)
WaitingFor(k) ==
  /\ ~dg.isRecording
  /\ dg.isTranscribing
  /\ dg.deepgramConnectionRef = k
  /\ k \in 1..Len(dg.sessions)
  /\ dg.sessions[k].connection = "OPEN"
  /\ dg.sessions[k].recorder \in {"stopping", "inactive"}

Waiting == \E k \in 1..MaxSessions : WaitingFor(k)

(* The tracks of the stream of session k were stopped.                     *)
Released(k) == k \in 1..Len(dg.sessions) /\ dg.sessions[k].stream = "stopped"

(* With the events delivered, a stopped recording ends in the idle state,  *)
(* its microphone stream released.                                         *)
StopReachesIdle ==
  \A k \in 1..MaxSessions : WaitingFor(k) ~> (HookIdle /\ Released(k))

(* The same for a stop during which no permission request is outstanding. *)
StopReachesIdleQuiet ==
  \A k \in 1..MaxSessions :
     (WaitingFor(k) /\ dg.pending = 0) ~> (HookIdle /\ Released(k))

(* A click during an active recording starts the wait with isRecording     *)
(* false and isTranscribing true, and the recorder's stop event keeps it.  *)
StopWaits ==
  [][\/ ActiveRecording /\ ToggleRecording
     \/ Waiting /\ RecorderStop
     => ~dg'.isRecording /\ dg'.isTranscribing]_vars

(* A click while waiting ends in the idle state.                           *)
FurtherToggleIdles == [][Waiting /\ ToggleRecording => HookIdle']_vars

(* C28: after a click during an active recording, with the recorder's stop *)
(* event and the connection's Close event eventually delivered, the hook   *)
(* eventually reaches the idle state (isRecording and isTranscribing       *)
(* false, connection reference null, microphone released); while it waits  *)
(* isRecording is false and isTranscribing is true; a further click while  *)
(* waiting forces the cleanup to the idle state.                           *)
C28_StopReachesIdle ==
  StopReachesIdle /\ StopWaits /\ FurtherToggleIdles

(* The hook failed to get the microphone with the message msg.             *)
DeniedWith(d, msg) ==
  /\ d.permissionStatus = "denied"
  /\ d.deepgramError = msg
  /\ d.transcriptionStatus = msg

(* Between d and e nothing was created and the flags kept their values.    *)
NothingStarted(d, e) ==
  /\ e.sessions = d.sessions
  /\ e.mediaRecorderRef = d.mediaRecorderRef
  /\ e.deepgramConnectionRef = d.deepgramConnectionRef
  /\ e.audioStreamRef = d.audioStreamRef
  /\ e.isRecording = d.isRecording
  /\ e.isTranscribing = d.isTranscribing

(* A click on the record button of the idle hook. *)
ToggleFromIdle ==
  ToggleRecording /\ ~dg.isRecording /\ ~dg.isTranscribing

(* C29: when toggleRecording is called from idle and microphone access is  *)
(* unsupported, or the permission request is rejected, permissionStatus    *)
(* becomes denied, deepgramError and transcriptionStatus carry the error   *)
(* message, no connection and no recorder are created, audioStreamRef and  *)
(* the flags isRecording and isTranscribing stay as they are (null and     *)
(* false after the click); a later click starts a fresh permission         *)
(* request.                                                                *)
C29_PermissionFailure ==
  [][/\ ToggleFromIdle /\ ~dg.getUserMedia
        => /\ DeniedWith(dg', NotSupported)
           /\ NothingStarted(dg, dg')
           /\ dg'.audioStreamRef = 0
           /\ ~dg'.isRecording /\ ~dg'.isTranscribing
     /\ PermissionDenied
        => /\ DeniedWith(dg', Denied)
           /\ NothingStarted(dg, dg')
     /\ ToggleFromIdle /\ dg.permissionStatus = "denied" /\ dg.getUserMedia
        => /\ dg'.permissionStatus = "pending"
           /\ dg'.pending = dg.pending + 1
           /\ dg'.deepgramError = null
           /\ NothingStarted(dg, dg')]_vars

(* The permission request was rejected on the idle hook and the record     *)
(* button can be clicked again.                                            *)
C29_Witness ==
  /\ ButtonEnabled
  /\ DeniedWith(dg, Denied)
  /\ dg.sessions = <<>>
  /\ dg.audioStreamRef = 0
  /\ ~dg.isRecording /\ ~dg.isTranscribing
  /\ dg.pending = 0


(* The values the modal's isOpen effect leaves behind.                     *)
ModalReset ==
  /\ userPrompt = <<>>
  /\ modal.aiResponse = <<>>
  /\ ~modal.isLoading
  /\ modal.geminiError = null

(* C30: while the modal is closed, userPrompt and aiResponse are empty,    *)
(* isLoading is false and geminiError is null, also when a request that    *)
(* was in flight at the close settles or a transcript is delivered         *)
(* afterwards, so that a reopened modal shows no response or error of a    *)
(* request issued before the close.                                        *)
C30_ModalResetOnClose == ~isOpen => ModalReset

====
